---- MODULE Spec2Model ----
(***************************************************************************)
(* A model of the client-side log collector (LogCollector, collector.ts)   *)
(* and of its durable store (IndexedDBStore, store.ts).                    *)
(*                                                                         *)
(* A record is a number 1..MaxRecords, in the order captureLog accepted    *)
(* it.  The JavaScript run-time is single threaded: every action below is  *)
(* one run-to-completion piece of code, from an event (timer, API call,    *)
(* completed request) up to the next await.                                *)
(***************************************************************************)
EXTENDS Integers, Sequences, FiniteSets, TLC

\* ---- bounds of the model ------------------------------------------------
MaxRecords == 2      \* records captureLog accepts in one behaviour
MaxTimers == 1       \* retry timeouts pending at the same time
MaxArrivals == 3     \* events that reach the rate-limit step in one minute
MaxTicks == 3        \* minutes the wall clock advances in one behaviour
MaxDepth == 2        \* nesting depth of a context object
MaxStack == 1        \* console calls the collector makes from within a console call
MaxCrumbs == 4       \* breadcrumbs added in one behaviour
MaxIds == 2          \* distinct values generateUUID draws from
MaxOpens == 2        \* calls of indexedDB.open
MaxCalls == 3        \* operations of the store started
MaxSends == 2        \* calls of send on the one XMLHttpRequest object

\* ---- program constants --------------------------------------------------
CIRCUIT_BREAKER_THRESHOLD == 5

Levels == <<"trace", "debug", "info", "warn", "error", "fatal", "critical">>

VARIABLES
    config,              \* LogCollector.config (the fields the model reads)
    logQueue,            \* LogCollector.logQueue
    isSending,           \* LogCollector.isSending
    circuitOpen,         \* LogCollector.circuitOpen
    consecutiveFailures, \* LogCollector.consecutiveFailures
    circuitResetTimer,   \* TRUE while the timeout armed by openCircuit is pending
    retryTimers,         \* pending setTimeout(() => flushQueue(retries + 1))
    flights,             \* flushQueue executions waiting for their fetch
    idb,                 \* content of the object store, in key order
    idbOps,              \* requests to the object store not yet completed
    lsSlot,              \* localStorage[localStorageKey]: <<>> is "no item"
    nextRec,             \* number of records accepted so far
    obs,                 \* what an observer of the callbacks and of the wire saw
    now,                 \* the wall clock (local time), to the minute
    logCounts,           \* LogCollector.logCounts
    currentMinute,       \* LogCollector.currentMinute
    rateObs,             \* per minute: events at the rate-limit step, events let through
    masking,             \* one run of the masking step of captureLog
    breadcrumbs,         \* LogCollector._breadcrumbs
    crumbCount,          \* number of breadcrumbs pushed so far
    idField,             \* the id field of the records that have one
    timestamp,           \* the timestamp field of the records
    embedded,            \* the breadcrumbs field of the records
    timer,               \* LogCollector.timer: a timeout handle, 0 is null
    timeouts,            \* the pending timeouts armed by startBatchTimer
    store,               \* IndexedDBStore: db, dbOpenPromise and its open requests
    page                 \* the page's XMLHttpRequest object; what its last event was

vars == <<config, logQueue, isSending, circuitOpen, consecutiveFailures,
          circuitResetTimer, retryTimers, flights, idb, idbOps, lsSlot,
          nextRec, obs, now, logCounts, currentMinute, rateObs, masking,
          breadcrumbs, crumbCount, idField, timestamp, embedded, timer, timeouts, store,
          page>>

policyVars == <<now, masking, store, page>>

Range(s) == {s[i] : i \in 1..Len(s)}
Min(a, b) == IF a < b THEN a ELSE b
RemoveAt(s, i) == SubSeq(s, 1, i - 1) \o SubSeq(s, i + 1, Len(s))
InsertAt(s, i, x) == SubSeq(s, 1, i - 1) \o <<x>> \o SubSeq(s, i, Len(s))

\* constructor: the stores the collector holds (collector.ts 133-143)
\* (config.hasIndexedDB: typeof indexedDB !== 'undefined' in this browser)
indexedDBStore == config.enableIndexedDB /\ config.hasIndexedDB
localStorageStore == ~indexedDBStore /\ config.enableLocalStorage

\* The mutable state the delivery engine works on, as one value, so that a
\* handler that calls another (finally -> processQueue -> flushQueue) is the
\* composition of their effects.
World ==
    [logQueue |-> logQueue, isSending |-> isSending, circuitOpen |-> circuitOpen,
     consecutiveFailures |-> consecutiveFailures,
     circuitResetTimer |-> circuitResetTimer, retryTimers |-> retryTimers,
     flights |-> flights, idbOps |-> idbOps, lsSlot |-> lsSlot, obs |-> obs,
     nextRec |-> nextRec, logCounts |-> logCounts, currentMinute |-> currentMinute,
     rateObs |-> rateObs, breadcrumbs |-> breadcrumbs, crumbCount |-> crumbCount,
     idField |-> idField, timestamp |-> timestamp, embedded |-> embedded,
     timer |-> timer,
     timeouts |-> timeouts]

\* The bounds of one step: an accepted record is one of the MaxRecords, an
\* event at the rate-limit step one of MaxArrivals of its minute, a
\* breadcrumb one of MaxCrumbs.
InBounds(w) ==
    /\ w.nextRec <= MaxRecords
    /\ \A k \in DOMAIN w.rateObs.arrived : w.rateObs.arrived[k] <= MaxArrivals
    /\ w.crumbCount <= MaxCrumbs

\* the step ends in state w
Commit(w) ==
    /\ InBounds(w)
    /\ logQueue' = w.logQueue
    /\ isSending' = w.isSending
    /\ circuitOpen' = w.circuitOpen
    /\ consecutiveFailures' = w.consecutiveFailures
    /\ circuitResetTimer' = w.circuitResetTimer
    /\ retryTimers' = w.retryTimers
    /\ flights' = w.flights
    /\ idbOps' = w.idbOps
    /\ lsSlot' = w.lsSlot
    /\ obs' = w.obs
    /\ nextRec' = w.nextRec
    /\ logCounts' = w.logCounts
    /\ currentMinute' = w.currentMinute
    /\ rateObs' = w.rateObs
    /\ breadcrumbs' = w.breadcrumbs
    /\ crumbCount' = w.crumbCount
    /\ idField' = w.idField
    /\ timestamp' = w.timestamp
    /\ embedded' = w.embedded
    /\ timer' = w.timer
    /\ timeouts' = w.timeouts

\* What the step being taken emitted: the callbacks it invoked, what it put on
\* the wire, and the flush (if any) whose outcome it handled.
NoOutput ==
    [onSendSuccess |-> <<>>, onSendFailure |-> <<>>, post |-> <<>>, beacon |-> <<>>,
     flushed |-> <<>>, outcome |-> "none", halfOpen |-> FALSE,
     failuresBefore |-> 0, postWhileOpen |-> FALSE, beaconWhileOpen |-> FALSE, retryOther |-> FALSE,
     blocked |-> FALSE, deleted |-> {}, captured |-> <<>>, reentered |-> FALSE,
     trigger |-> "none", unload |-> "none", persistFailed |-> <<>>,
     hook |-> <<>>, attempted |-> FALSE, tick |-> FALSE, persisted |-> <<>>,
     deleteFailed |-> <<>>, wrapped |-> 0, originals |-> <<>>]

\* the state at the start of a step
Fresh == [World EXCEPT !.obs.last = NoOutput]

\* ---- record ids ------------------------------------------------------------
\* log.id of record r: 0 is undefined
idOf(w, r) == IF r \in DOMAIN w.idField THEN w.idField[r] ELSE 0

\* the id of a record whose id field was masked (line 705): '********'
maskedId == 0 - 1

\* an id assignment that does not look at the id the record has
assignId_overwrite(idmap, r, uuid) == (r :> uuid) @@ idmap

\* if (!log.id) log.id = generateUUID()
assignId(idmap, r, uuid) ==
    IF r \in DOMAIN idmap THEN idmap ELSE (r :> uuid) @@ idmap

RECURSIVE assignIds(_, _, _)
\* the same for every record of a list, each with a draw of its own
assignIds(idmap, logs, uuid) ==
    IF logs = <<>> THEN idmap
    ELSE assignIds(assignId(idmap, Head(logs), uuid), Tail(logs), uuid + 1)

\* logs.map(log => log.id).filter(id => id !== undefined)
idsOf(w, logs) == {idOf(w, logs[i]) : i \in 1..Len(logs)} \ {0}

\* ---- IndexedDBStore ------------------------------------------------------
\* a deleteLogs that deletes nothing
deleteLogs_none(db, ids) == db

\* a deleteLogs that empties the object store, as clearLogs does
deleteLogs_clear(db, ids) == <<>>

\* deleteLogs(ids): one store.delete per id in one readwrite transaction.
\* The object store's key is the id (keyPath 'id').
deleteLogs(db, ids) == SelectSeq(db, LAMBDA r : idOf(World, r) \notin ids)

\* The requests of deleteLogs's transaction (store.ts 231-240).  bad: the id
\* whose request fails, 0 when none does.  request.onerror does not cancel the
\* error event (no preventDefault), so the failed request aborts the
\* transaction and the deletes it has made are undone.
deleteRequests(db, ids, bad) == IF bad = 0 THEN deleteLogs(db, ids) ELSE db

\* ---- batch timer ---------------------------------------------------------
\* setTimeout returns a handle no timeout has had before.  Handles are only
\* ever compared, so the model names a new one by the smallest number that
\* names no pending timeout and is not held in this.timer, and renames the
\* handle of a timeout that has fired to firedHandle: it names no timeout
\* that is or will be pending.
firedHandle == 0 - 1

newHandle(pending, held) ==
    CHOOSE n \in 1..(Cardinality(pending) + 2) :
        /\ n # held /\ \A t \in pending : t.id # n
        /\ \A m \in 1..(n - 1) : m = held \/ \E t \in pending : t.id = m

\* a startBatchTimer that clears nothing
startBatchTimer_noClear(w, batchInterval) ==
    LET id == newHandle(w.timeouts, w.timer)
    IN  [w EXCEPT !.timeouts = @ \cup {[id |-> id, delay |-> batchInterval]},
                  !.timer = id]

\* startBatchTimer (lines 717-725): clearTimeout(this.timer) when it is set,
\* then a timeout of config.batchInterval whose handle is kept in this.timer
startBatchTimer(w, batchInterval) ==
    LET cleared == IF w.timer # 0 THEN {t \in w.timeouts : t.id # w.timer}
                   ELSE w.timeouts
        id == newHandle(cleared, w.timer)
    IN  [w EXCEPT !.timeouts = cleared \cup {[id |-> id, delay |-> batchInterval]},
                  !.timer = id]

\* ---- IndexedDBStore: the connection ---------------------------------------
\* db: this.db, 0 is null, otherwise the open request that produced the
\* handle.  dbOpenPromise: 0 is null, otherwise the promise made for that
\* open request.  pending: the open requests not yet answered.  rejected: the
\* promises that are rejected.  awaiting: the operations at their
\* "await this.openDb()", with the promise they await.  opens, calls: the
\* indexedDB.open calls and the operations so far.  last: what the step did.
NoStoreOutput == [opened |-> FALSE, proceeded |-> <<>>, failed |-> <<>>]

Store0 ==
    [db |-> 0, dbOpenPromise |-> 0, pending |-> {}, rejected |-> {},
     awaiting |-> <<>>, opens |-> 0, calls |-> 0, last |-> NoStoreOutput]

\* an openDb that opens the database whenever this.db is not set
openDb_noShare(st, throws) ==
    LET p == st.opens + 1
    IN  IF st.db # 0 THEN [st |-> st, promise |-> 0]
        ELSE [st |-> [st EXCEPT !.opens = p, !.dbOpenPromise = p,
                                !.pending = IF throws THEN @ ELSE @ \cup {p},
                                !.rejected = IF throws THEN @ \cup {p} ELSE @,
                                !.last.opened = TRUE],
              promise |-> p]

\* openDb (store.ts 39-86) up to its return: the promise the caller awaits
\* (0: this.db is returned).  throws: indexedDB.open throws, which rejects
\* the promise under construction; line 47 then stores that promise.
openDb(st, throws) ==
    LET p == st.opens + 1
    IN  IF st.db # 0 THEN [st |-> st, promise |-> 0]
        ELSE IF st.dbOpenPromise # 0 THEN [st |-> st, promise |-> st.dbOpenPromise]
        ELSE [st |-> [st EXCEPT !.opens = p, !.dbOpenPromise = p,
                                !.pending = IF throws THEN @ ELSE @ \cup {p},
                                !.rejected = IF throws THEN @ \cup {p} ELSE @,
                                !.last.opened = TRUE],
              promise |-> p]

collectorVars ==
    <<config, logQueue, isSending, circuitOpen, consecutiveFailures,
      circuitResetTimer, retryTimers, flights, idb, idbOps, lsSlot, nextRec,
      obs, now, logCounts, currentMinute, rateObs, masking, breadcrumbs,
      crumbCount, idField, timestamp, embedded, timer, timeouts, page>>

\* addLog, getAllLogs, clearLogs, deleteLogs with ids (store.ts 93-96,
\* 136-139, 171-174, 212-215): the operation goes on with this.db when it is
\* set; otherwise it awaits openDb(), and is rejected at once when the promise
\* it is given is rejected already.
StoreOp(op, throws) ==
    /\ store.calls < MaxCalls
    /\ LET st0 == [store EXCEPT !.last = NoStoreOutput, !.calls = @ + 1]
           o == openDb(st0, throws)
       IN  /\ o.st.opens <= MaxOpens
           /\ throws => o.st.last.opened
           /\ store' =
                 IF st0.db # 0
                 THEN [st0 EXCEPT !.last.proceeded = <<[op |-> op, db |-> st0.db]>>]
                 ELSE IF o.promise \in o.st.rejected
                 THEN [o.st EXCEPT !.last.failed = <<op>>]
                 ELSE [o.st EXCEPT !.awaiting =
                                       Append(@, [op |-> op, promise |-> o.promise])]
    /\ UNCHANGED collectorVars

\* request.onsuccess of open request p (store.ts 64-69), and the operations
\* that awaited its promise: each goes on with this.db
OpenSuccess(p) ==
    /\ p \in store.pending
    /\ LET woken == SelectSeq(store.awaiting, LAMBDA a : a.promise = p)
       IN  store' = [store EXCEPT
                        !.db = p, !.dbOpenPromise = 0, !.pending = @ \ {p},
                        !.awaiting = SelectSeq(@, LAMBDA a : a.promise # p),
                        !.last = [NoStoreOutput EXCEPT !.proceeded =
                                     [i \in DOMAIN woken |->
                                         [op |-> woken[i].op, db |-> p]]]]
    /\ UNCHANGED collectorVars

\* request.onerror of open request p (store.ts 71-76): the operations that
\* awaited its promise are rejected
OpenError(p) ==
    /\ p \in store.pending
    /\ LET woken == SelectSeq(store.awaiting, LAMBDA a : a.promise = p)
       IN  store' = [store EXCEPT
                        !.dbOpenPromise = 0, !.pending = @ \ {p},
                        !.rejected = @ \cup {p},
                        !.awaiting = SelectSeq(@, LAMBDA a : a.promise # p),
                        !.last = [NoStoreOutput EXCEPT !.failed =
                                     [i \in DOMAIN woken |-> woken[i].op]]]
    /\ UNCHANGED collectorVars

\* ---- the page ----------------------------------------------------------------
\* xhr: the expando fields the wrappers keep on an XMLHttpRequest object
\* (_skipCapture, _url; url <<>> before the first open), the pairs of
\* loadend/error listeners send has added to it, and where its request
\* stands.  last: the request that ended or the error event that came in
\* this step, and the breadcrumbs the step added.
NoPageOutput == [request |-> <<>>, error |-> <<>>, crumbs |-> 0]

Page0 ==
    [xhr |-> [skipCapture |-> FALSE, url |-> <<>>, listeners |-> 0,
              state |-> "unsent"],
     last |-> NoPageOutput]

\* ---- circuit breaker -----------------------------------------------------
\* an openCircuit that arms no reset timer
openCircuit_noTimer(w) == [w EXCEPT !.circuitOpen = TRUE]

\* openCircuit (lines 932-943): the reset timeout is armed anew
openCircuit(w) ==
    [w EXCEPT !.circuitOpen = TRUE, !.circuitResetTimer = TRUE]

closeCircuit(w) ==
    [w EXCEPT !.circuitOpen = FALSE, !.consecutiveFailures = 0,
              !.circuitResetTimer = FALSE]

\* ---- delivery ------------------------------------------------------------
\* a guard that does not look at isSending
flushGuard_noSending(w) == w.circuitOpen \/ ~config.dsn

\* a guard that does not look at the circuit
flushGuard_noCircuit(w) == w.isSending \/ ~config.dsn

\* flushQueue's three preconditions (line 802): TRUE means "return".
flushGuard(w) == w.isSending \/ w.circuitOpen \/ ~config.dsn

RECURSIVE flushQueue(_, _, _, _, _)
RECURSIVE captureLog(_, _, _, _, _, _)

\* ---- breadcrumbs and the console wrappers -------------------------------
\* an addBreadcrumb that never drops the oldest entry
addBreadcrumb_noShift(w, h) ==
    IF config.beforeBreadcrumb # "none" /\ h = "drop" THEN w
    ELSE [w EXCEPT !.crumbCount = @ + 1,
                   !.breadcrumbs = Append(@, w.crumbCount + 1)]

\* Arrays are objects: ref names the array (0 is the one this._breadcrumbs
\* refers to, which push and shift change in place), elems its elements when
\* it was made.
theRing == [ref |-> 0, elems |-> <<>>]

\* the elements of an array, given what the ring holds now
elements(array, ring) == IF array.ref = 0 THEN ring ELSE array.elems

\* a record that carries the ring itself instead of a copy of it
spread_alias(array, ring, fresh) == array

\* [...array]: a new array with the elements of the given one
spread(array, ring, fresh) == [ref |-> fresh, elems |-> elements(array, ring)]

\* addBreadcrumb; h: what beforeBreadcrumb returns ("drop": a nullish value).
\* A breadcrumb is the number of its push.
addBreadcrumb(w, h) ==
    IF config.beforeBreadcrumb # "none" /\ h = "drop" THEN w
    ELSE LET pushed == Append(w.breadcrumbs, w.crumbCount + 1)
         IN  [w EXCEPT !.crumbCount = @ + 1,
                       !.breadcrumbs = IF Len(pushed) > config.maxBreadcrumbs
                                       THEN Tail(pushed) ELSE pushed]

\* the last statement of a wrapper: the saved original is applied to the
\* wrapper's own arguments (lines 282, 493, 501)
delegate(w, fn, capturedBefore) ==
    [w EXCEPT !.obs.last.originals =
                  Append(@, [fn |-> fn,
                             routed |-> Len(w.obs.last.captured) > capturedBefore])]

\* console.info/warn/error/debug/trace as wrapConsoleMethods leaves them
\* (lines 279-283): captureLog, addBreadcrumb, then the saved original.
\* Every sampling rate of the model is 100%, so the draw is immaterial; the
\* hooks are taken to return their argument.
\* wrapped counts the calls of wrappers; originals lists the saved originals
\* invoked, each with whether captureLog had been called for it before.
consoleCall(w, level, depth) ==
    IF config.enableConsoleCapture
    THEN delegate(addBreadcrumb(captureLog([w EXCEPT !.obs.last.wrapped = @ + 1],
                                           level, 0, "same", w.nextRec + 1, depth),
                                "same"),
                  level, Len(w.obs.last.captured))
    ELSE w

\* A console.warn or console.error of the collector or of the store, made
\* depth console calls deep.  The call stack has room for MaxStack nested
\* console calls; the call that exceeds it throws and changes nothing.
diag(w, level, depth) ==
    IF config.enableConsoleCapture
    THEN IF depth < MaxStack
         THEN consoleCall([w EXCEPT !.obs.last.reentered = TRUE], level, depth + 1)
         ELSE [w EXCEPT !.obs.last.reentered = TRUE, !.obs.last.wrapped = @ + 1]
    ELSE w

\* processQueue (lines 727-739): both branches test the in-memory queue.
\* trigger records that the test was made and whether it asked for a flush.
processQueue(w) ==
    IF Len(w.logQueue) >= config.batchSize
    THEN flushQueue([w EXCEPT !.obs.last.trigger = "flush"], 0, FALSE, FALSE, <<>>)
    ELSE [w EXCEPT !.obs.last.trigger = IF @ = "flush" THEN @ ELSE "checked"]

\* the finally block of flushQueue (lines 877-888)
flushFinally(w, logsToSend) ==
    LET w1 == [w EXCEPT !.isSending = FALSE]
    IN  IF \/ indexedDBStore /\ Len(logsToSend) > 0
           \/ ~indexedDBStore /\ Len(w1.logQueue) > 0
        THEN processQueue(w1)
        ELSE w1

handleSendSuccess(w, logsSent, idsToDelete) ==
    LET w1 == closeCircuit([w EXCEPT !.consecutiveFailures = 0])
        w2 == [w1 EXCEPT !.obs.last.onSendSuccess = Append(@, logsSent),
                         !.obs.delivered = @ \cup Range(logsSent),
                         !.obs.failStreak = 0]
    IN  IF indexedDBStore
        THEN IF idsToDelete # {}
             THEN [w2 EXCEPT !.idbOps = Append(@, [kind |-> "delete", ids |-> idsToDelete])]
             ELSE w2
        ELSE IF localStorageStore
             THEN [w2 EXCEPT !.lsSlot = <<>>]
             ELSE w2

\* a handleSendFailure that counts the failure and never opens the circuit
handleSendFailure_noOpen(w, logsFailed, retries) ==
    [w EXCEPT !.consecutiveFailures = @ + 1,
              !.obs.last.onSendFailure = Append(@, logsFailed)]

handleSendFailure(w, logsFailed, retries) ==
    LET w1 == [w EXCEPT !.consecutiveFailures = @ + 1,
                        !.obs.last.onSendFailure = Append(@, logsFailed)]
    IN  IF w1.consecutiveFailures >= CIRCUIT_BREAKER_THRESHOLD
        THEN diag(openCircuit(w1), "error", 0)
        ELSE IF retries < config.maxRetries
             THEN [diag(w1, "warn", 0) EXCEPT !.retryTimers =
                       Append(@, [retries |-> retries + 1, failed |-> logsFailed])]
             ELSE diag(w1, "error", 0)

\* flushQueue from the batch selected (line 823) up to the first await of the
\* transport.  beaconOk: navigator.sendBeacon exists, the payload is under
\* 60 KiB and the beacon was queued.  retryOf: the batch whose failure armed
\* the retry timer this call comes from (<<>> for any other caller).
\* JSON.stringify(logs) returns: every record carries what getGlobalContext
\* returned (line 646), and JSON.stringify throws on an object that refers to
\* itself
stringifies(logs) == logs = <<>> \/ config.getGlobalContext = "plain"

flushSend(w, logsToSend, retries, isUnload, beaconOk, retryOf) ==
    LET ids == IF indexedDBStore THEN idsOf(w, logsToSend) ELSE {}
        w0 == [w EXCEPT !.obs.last.retryOther =
                   retryOf # <<>> /\ logsToSend # retryOf
                   /\ ~(Range(retryOf) \subseteq w.obs.received),
                        !.obs.last.unload =
                   IF isUnload /\ ~beaconOk /\ logsToSend # <<>> THEN "refused" ELSE @]
    IN  IF logsToSend = <<>>
        THEN [w0 EXCEPT !.isSending = FALSE]
        \* line 826, before the try of line 835: a throw ends flushQueue here
        ELSE IF ~stringifies(logsToSend) THEN w0
        ELSE IF isUnload /\ beaconOk
        THEN flushFinally(
                 handleSendSuccess(
                     [w0 EXCEPT !.obs.received = @ \cup Range(logsToSend),
                                !.obs.halfOpen = FALSE,
                                !.obs.last.beacon = Append(@, logsToSend),
                                !.obs.last.flushed = logsToSend,
                                !.obs.last.outcome = "beacon",
                                !.obs.last.halfOpen = w.obs.halfOpen],
                     logsToSend, ids),
                 logsToSend)
        ELSE [w0 EXCEPT !.flights =
                  Append(@, [logsToSend |-> logsToSend, ids |-> ids,
                             retries |-> retries, isUnload |-> isUnload,
                             request |-> config.originalFetch]),
                        !.obs.last.post = IF config.originalFetch
                                          THEN Append(@, logsToSend) ELSE @,
                        !.obs.last.postWhileOpen = @ \/ w.circuitOpen]

flushQueue(w, retries, isUnload, beaconOk, retryOf) ==
    IF flushGuard(w)
    THEN [w EXCEPT !.obs.last.blocked = TRUE]
    ELSE LET w1 == [w EXCEPT !.isSending = TRUE, !.obs.last.attempted = TRUE]
         IN  IF indexedDBStore
             THEN [w1 EXCEPT !.idbOps =
                       Append(@, [kind |-> "getAllFlush", retries |-> retries,
                                  isUnload |-> isUnload, retryOf |-> retryOf])]
             ELSE flushSend(
                      [w1 EXCEPT !.logQueue =
                           SubSeq(@, Min(Len(@), config.batchSize) + 1, Len(@))],
                      SubSeq(w1.logQueue, 1, Min(Len(w1.logQueue), config.batchSize)),
                      retries, isUnload, beaconOk, retryOf)

\* ---- enrichment and policy ----------------------------------------------
Rank(level) == CHOOSE i \in 1..Len(Levels) : Levels[i] = level

\* The integer key of a wall-clock minute (lines 613, 956, 963).  The year and
\* month terms are the same for every instant of the model and are left out.
minuteKey(t) == t.date * 10000 + t.hours * 100 + t.minutes

countOf(counts, key) == IF key \in DOMAIN counts THEN counts[key] ELSE 0
setCount(counts, key, n) ==
    [k \in DOMAIN counts \cup {key} |-> IF k = key THEN n ELSE counts[k]]
NoCounts == [k \in {} |-> 0]

\* saveLogsToLocalStorage (lines 741-762): records without an id get one,
\* then the queue is serialized into the slot; the size limit is not reached.
saveLogsToLocalStorage(w, uuid) ==
    IF localStorageStore
    THEN [w EXCEPT !.idField = assignIds(@, w.logQueue, uuid),
                   \* lines 757-760: a throw of JSON.stringify removes the slot
                   !.lsSlot = IF stringifies(w.logQueue) THEN w.logQueue ELSE <<>>]
    ELSE w

\* captureLog from logQueue.push (line 669) to the end, or to its await.
enqueue(w, r, uuid) ==
    LET w1 == [w EXCEPT !.logQueue = Append(@, r)]
    IN  IF indexedDBStore
        THEN [w1 EXCEPT !.logQueue = <<>>,
                        !.idbOps = Append(@, [kind |-> "addAll", todo |-> w1.logQueue,
                                              logsToPersist |-> w1.logQueue,
                                              failed |-> FALSE, added |-> {}])]
        ELSE processQueue(saveLogsToLocalStorage(w1, uuid))

\* the rate-limit test with an off-by-one limit
overLimit_offByOne(n) == n > config.maxLogsPerMinute + 1

\* line 623: the count of this minute, this event included, exceeds the limit
overLimit(n) == n > config.maxLogsPerMinute

\* the level test with the configured level itself gated
belowLevel_inclusive(level) == Rank(level) <= Rank(config.logLevel)

\* line 599: the level ranks below the configured one
belowLevel(level) == Rank(level) < Rank(config.logLevel)

\* the entry captureLog goes on with after a hook that returned a record,
\* were it to keep the one it built
afterHook_original(built, modified) == built

\* line 666: logEntry = modifiedLogEntry
afterHook(built, modified) == modified

\* what captureLog did with one event
Captured(w, level, verdict, rec) ==
    [w EXCEPT !.obs.last.captured =
                  Append(@, [level |-> level, verdict |-> verdict, rec |-> rec])]

\* captureLog(level, args, context) up to its first await.  u: the
\* Math.random() draw, in percent; h: what beforeSend returns for the entry
\* ("same" the entry, "replace" another record, "drop" a nullish value);
\* uuid: what generateUUID returns (uuid + 1 at its next call); depth: the
\* console calls this call is nested in.  The record built is the number
\* nextRec + 1; the record a replacing hook returns for it is the negative of
\* that number: a new object with the same timestamp and without an id.
captureLog(w, level, u, h, uuid, depth) ==
    LET key == minuteKey(now)
        sampledOut == u > config.samplingRates[level]
        limited == config.maxLogsPerMinute > 0
        counts0 == IF w.currentMinute # key THEN NoCounts ELSE w.logCounts
        n == countOf(counts0, key) + 1
        dropped == limited /\ overLimit(n)
        w1 == IF limited
              THEN [w EXCEPT
                       !.logCounts = setCount(counts0, key, n),
                       !.currentMinute = key,
                       !.rateObs.arrived = setCount(@, key, countOf(@, key) + 1),
                       !.rateObs.passed = IF dropped THEN @
                                          ELSE setCount(@, key, countOf(@, key) + 1)]
              ELSE w
        built == w1.nextRec + 1
        hooked == config.beforeSend # "none"
        modifiedLogEntry == IF h = "drop" THEN 0
                            ELSE IF h = "replace" THEN 0 - built ELSE built
        logEntry == IF hooked THEN afterHook(built, modifiedLogEntry) ELSE built
        \* what the hook was given and what it returned (0: a nullish value),
        \* and the records that came out of the hook step
        w1h == IF hooked
               THEN [w1 EXCEPT !.obs.last.hook =
                                   Append(@, [given |-> built,
                                              returned |-> modifiedLogEntry]),
                               !.obs.returned = @ \cup ({modifiedLogEntry} \ {0})]
               ELSE [w1 EXCEPT !.obs.returned = @ \cup {built}]
        \* lines 653-655, then line 659: the id is a field of the record like any
        \* other, and masked when its key is listed
        assigned == IF indexedDBStore THEN assignId(w1.idField, built, uuid)
                    ELSE w1.idField
        masked == IF hooked /\ "id" \in config.maskFields /\ built \in DOMAIN assigned
                  THEN (built :> maskedId) @@ assigned ELSE assigned
        \* line 649: breadcrumbs: [...this._breadcrumbs]
        w2 == [w1h EXCEPT !.idField = masked,
                          !.timestamp = (logEntry :> key) @@ @,
                          !.embedded = (logEntry :> spread(theRing, w.breadcrumbs, built)) @@ @]
    IN  IF belowLevel(level) THEN Captured(w, level, "gated", 0)
        ELSE IF sampledOut THEN Captured(w, level, "sampled", 0)
        ELSE IF dropped THEN diag(Captured(w1, level, "limited", 0), "warn", depth)
        \* line 659: maskSensitiveFields starts with JSON.stringify(logEntry)
        ELSE IF hooked /\ config.maskFields # {} /\ config.getGlobalContext # "plain"
        THEN Captured(w1, level, "threw", 0)
        ELSE IF hooked /\ modifiedLogEntry = 0 THEN Captured(w1h, level, "hookDropped", 0)
        ELSE enqueue(Captured([w2 EXCEPT !.nextRec = @ + 1], level, "accepted", logEntry),
                     logEntry, uuid + 1)

\* a call of the logging API (log, info, warn, ...)
CaptureLog(level, u, h, uuid) ==
    LET w == captureLog(Fresh, level, u, h, uuid, 0)
    IN  /\ Commit(w)
        /\ UNCHANGED <<config, idb, policyVars>>

\* the page calls a wrapped console method
ConsoleCall(level) ==
    LET w == consoleCall(Fresh, level, 0)
    IN  /\ config.enableConsoleCapture
        /\ Commit(w)
        /\ UNCHANGED <<config, idb, policyVars>>

\* history.pushState / history.replaceState as captureNavigationEvents
\* leaves them (lines 488-502)
HistoryCall(fn) ==
    LET w0 == [Fresh EXCEPT !.obs.last.wrapped = @ + 1]
        w == delegate(addBreadcrumb(captureLog(w0, "info", 0, "same", nextRec + 1, 0),
                                    "same"),
                      fn, 0)
    IN  /\ Commit(w)
        /\ UNCHANGED <<config, idb, policyVars>>

\* a capture other than the console's (DOM, network, navigation) leaves a
\* breadcrumb
AddBreadcrumb(h) ==
    LET w == addBreadcrumb(Fresh, h)
    IN  /\ Commit(w)
        /\ UNCHANGED <<config, idb, policyVars>>

\* ---- the page-unload listener (lines 191-229) ----------------------------
\* from line 205 on: the direct beacon needs a read of the store first.
\* unload records that the listener got to its send in this step, and whether
\* a beacon it called was refused.
unloadSend(w, beaconOk) ==
    IF indexedDBStore /\ ~w.isSending
    THEN [w EXCEPT !.idbOps = Append(@, [kind |-> "getAllUnload"])]
    ELSE flushQueue([w EXCEPT !.obs.last.unload = "accepting"], 0, TRUE, beaconOk, <<>>)

\* A second unload event does not come while the listener's run for the
\* first one still waits for the store.
Unload(beaconOk, uuid) ==
    /\ \A i \in 1..Len(idbOps) : idbOps[i].kind \notin {"addAllUnload", "getAllUnload"}
    /\ LET w0 == Fresh
       IN  IF Len(logQueue) > 0 /\ indexedDBStore
           THEN Commit([w0 EXCEPT !.idField = assignIds(@, logQueue, uuid),
                                  !.idbOps =
                            Append(@, [kind |-> "addAllUnload", todo |-> logQueue,
                                       logsToPersist |-> logQueue,
                                       failed |-> FALSE, added |-> {}])])
           ELSE Commit(unloadSend(w0, beaconOk))
    /\ UNCHANGED <<config, idb, policyVars>>

\* ---- the object store completes its oldest request -----------------------
\* Transactions on one object store run in the order they were created, so
\* the pending requests form a queue.  ok: the request succeeded; pos: where
\* the new key falls among the keys present (ids are random UUIDs and getAll
\* returns records in key order).
IdbAdd(ok, pos, uuid) ==
    /\ idbOps # <<>> /\ idbOps[1].kind \in {"addAll", "addAllUnload"}
    /\ ok => config.dbOpens
    /\ LET op == idbOps[1]
           r == Head(op.todo)
           rest == Tail(op.todo)
           added == IF ok THEN op.added \cup {r} ELSE op.added
           ops == IF rest = <<>> THEN Tail(idbOps)
                  ELSE <<[op EXCEPT !.todo = rest, !.failed = @ \/ ~ok,
                                    !.added = added]>> \o Tail(idbOps)
           \* the last addLog of the batch has settled
           settled == IF rest = <<>>
                      THEN <<[batch |-> op.logsToPersist, added |-> added]>>
                      ELSE <<>>
           w0 == [Fresh EXCEPT !.idbOps = ops, !.idField = assignId(@, r, uuid),
                               !.obs.last.persisted = settled]
           rejected == ~ok /\ ~op.failed               \* Promise.all rejects
           resolved == ok /\ ~op.failed /\ rest = <<>>  \* Promise.all resolves
       IN  /\ ok => idOf(w0, r) \notin idsOf(w0, idb)   \* else: ConstraintError
           /\ pos \in 1..(Len(idb) + 1)
           /\ ~ok => pos = 1
           /\ idb' = IF ok THEN InsertAt(idb, pos, r) ELSE idb
           /\ IF op.kind = "addAll"
              THEN IF rejected
                   THEN \* the catch block (lines 681-687), then processQueue
                        Commit(processQueue(saveLogsToLocalStorage(
                            [diag(w0, "error", 0) EXCEPT
                                !.logQueue = @ \o @,
                                !.obs.last.persistFailed = op.logsToPersist],
                            uuid)))
                   ELSE IF resolved THEN Commit(processQueue(w0)) ELSE Commit(w0)
              ELSE IF rejected \/ resolved
                   THEN Commit(unloadSend([w0 EXCEPT !.logQueue = <<>>], FALSE))
                   ELSE Commit(w0)
    /\ UNCHANGED <<config, policyVars>>

IdbGetAllFlush(ok, beaconOk) ==
    /\ idbOps # <<>> /\ idbOps[1].kind = "getAllFlush"
    /\ ok => config.dbOpens
    /\ LET op == idbOps[1]
           allStoredLogs == IF ok THEN idb ELSE <<>>
           logsToSend == SubSeq(allStoredLogs, 1, Min(Len(allStoredLogs), config.batchSize))
       IN  /\ beaconOk => op.isUnload
           /\ Commit(flushSend([Fresh EXCEPT !.idbOps = Tail(@)], logsToSend,
                               op.retries, op.isUnload, beaconOk, op.retryOf))
    /\ UNCHANGED <<config, idb, policyVars>>

\* the unload listener after its read of the store (lines 206-227)
IdbGetAllUnload(ok, beaconOk) ==
    /\ idbOps # <<>> /\ idbOps[1].kind = "getAllUnload"
    /\ ok => config.dbOpens
    /\ LET logsToSendFromDB == IF ok THEN idb ELSE <<>>
           w0 == [Fresh EXCEPT !.idbOps = Tail(@),
                               !.obs.last.unload =
                                   IF ~ok THEN "none"
                                   ELSE IF Len(idb) > 0 /\ config.dsn /\ ~beaconOk
                                        THEN "refused" ELSE "accepting"]
       IN  IF Len(logsToSendFromDB) > 0 /\ config.dsn /\ ~stringifies(logsToSendFromDB)
           \* line 208: a throw ends the listener
           THEN Commit([w0 EXCEPT !.obs.last.unload = "none"])
           ELSE IF Len(logsToSendFromDB) > 0 /\ config.dsn /\ beaconOk
           THEN Commit([w0 EXCEPT
                    !.idbOps = Append(@, [kind |-> "delete",
                                          ids |-> idsOf(w0, logsToSendFromDB)]),
                    !.obs.received = @ \cup Range(logsToSendFromDB),
                    !.obs.last.beacon = Append(@, logsToSendFromDB),
                    !.obs.last.beaconWhileOpen = w0.circuitOpen])
           ELSE Commit(flushQueue(w0, 0, TRUE, FALSE, <<>>))
    /\ UNCHANGED <<config, idb, policyVars>>

\* deleteLogs(ids) settles.  ok: every request succeeded.  Otherwise either
\* the database or the transaction failed as a whole (bad = 0), or the request
\* for the id bad failed; last: that request was the last one outstanding, so
\* its onerror -> checkCompletion resolved the promise before the
\* transaction's error and abort handlers could reject it.
IdbDelete(ok) ==
    /\ idbOps # <<>> /\ idbOps[1].kind = "delete"
    /\ ok => config.dbOpens
    /\ LET ids == idbOps[1].ids
       IN  \E bad \in (IF ok \/ ~config.dbOpens THEN {0} ELSE ids \cup {0}),
              last \in BOOLEAN :
               /\ bad = 0 => ~last
               /\ (bad # 0 /\ Cardinality(ids) = 1) => last
               /\ idb' = IF ~ok /\ bad = 0 THEN idb ELSE deleteRequests(idb, ids, bad)
               /\ Commit([Fresh EXCEPT
                      !.idbOps = Tail(@),
                      !.obs.last.deleted = IF ok THEN ids ELSE {},
                      !.obs.last.deleteFailed =
                          IF bad # 0
                          THEN <<[ids |-> ids, bad |-> bad, resolved |-> last]>>
                          ELSE <<>>])
    /\ UNCHANGED <<config, policyVars>>

\* loadLogsFromLocalStorage (lines 764-781)
loadLogsFromLocalStorage(w) ==
    IF localStorageStore THEN [w EXCEPT !.logQueue = w.lsSlot \o @, !.lsSlot = <<>>]
    ELSE w

\* loadLogsFromPersistence (lines 783-798), from the answer of the store on:
\* the constructor calls it when it has made the IndexedDBStore.
IdbGetAllLoad(ok) ==
    /\ idbOps # <<>> /\ idbOps[1].kind = "getAllLoad"
    /\ ok => config.dbOpens
    /\ LET w0 == [Fresh EXCEPT !.idbOps = Tail(@)]
       IN  IF ok
           THEN Commit([w0 EXCEPT !.logQueue = idb \o @])
           ELSE Commit(loadLogsFromLocalStorage(diag(w0, "error", 0)))
    /\ UNCHANGED <<config, idb, policyVars>>

\* ---- the fetch of a flush completes --------------------------------------
\* outcome: "ok" a 2xx response, "http" any other response, "throw" the fetch
\* (or reading the error body) rejected.  Without a saved fetch (originalFetch
\* is set by wrapNetworkRequests only) the optional chaining skips the call
\* and the response is undefined: outcome "skipped".
FetchDone(i, outcome) ==
    /\ i \in 1..Len(flights)
    /\ LET f == flights[i]
           w0 == [Fresh EXCEPT !.flights = RemoveAt(@, i),
                               !.obs.halfOpen = FALSE,
                               !.obs.last.flushed = f.logsToSend,
                               !.obs.last.outcome = outcome,
                               !.obs.last.halfOpen = obs.halfOpen]
           failed(w) == [w EXCEPT !.obs.failStreak =
                                      Min(@ + 1, CIRCUIT_BREAKER_THRESHOLD),
                                  !.obs.last.failuresBefore = consecutiveFailures]
       IN  /\ f.request <=> outcome \in {"ok", "http", "throw"}
           /\ outcome = "http" => Len(retryTimers) < MaxTimers
           /\ Commit(flushFinally(
                  CASE outcome = "ok" ->
                         handleSendSuccess(
                             [w0 EXCEPT !.obs.received = @ \cup Range(f.logsToSend)],
                             f.logsToSend, f.ids)
                    [] outcome = "skipped" -> handleSendSuccess(w0, f.logsToSend, f.ids)
                    [] outcome = "http" ->
                         handleSendFailure(diag(failed(w0), "error", 0),
                                           f.logsToSend, f.retries)
                    [] outcome = "throw" -> failed(w0),
                  f.logsToSend))
    /\ UNCHANGED <<config, idb, policyVars>>

\* ---- timers --------------------------------------------------------------
\* The callback of startBatchTimer's timeout t (lines 721-724): the timeout
\* has fired and is no longer pending; flushQueue(), then startBatchTimer().
BatchTimer ==
    /\ \E t \in timeouts :
          Commit(startBatchTimer(
                     flushQueue([Fresh EXCEPT !.timeouts = @ \ {t},
                                              !.timer = IF @ = t.id THEN firedHandle ELSE @,
                                              !.obs.last.tick = TRUE],
                                0, FALSE, FALSE, <<>>),
                     config.batchInterval))
    /\ UNCHANGED <<config, idb, policyVars>>

\* a timeout armed by handleSendFailure (line 921)
RetryTimer(i) ==
    /\ i \in 1..Len(retryTimers)
    /\ Commit(flushQueue([Fresh EXCEPT !.retryTimers = RemoveAt(@, i)],
                         retryTimers[i].retries, FALSE, FALSE, retryTimers[i].failed))
    /\ UNCHANGED <<config, idb, policyVars>>

\* the timeout armed by openCircuit (lines 937-942)
CircuitReset ==
    /\ circuitResetTimer
    /\ Commit(flushQueue([Fresh EXCEPT !.circuitOpen = FALSE,
                                       !.consecutiveFailures = 0,
                                       !.circuitResetTimer = FALSE,
                                       !.obs.halfOpen = TRUE,
                                       !.obs.failStreak = 0],
                         0, FALSE, FALSE, <<>>))
    /\ UNCHANGED <<config, idb, policyVars>>

\* ---- the delivery engine, default policy ---------------------------------
AllRates(p) == [l \in Range(Levels) |-> p]

\* The configuration after the constructor's merge, with the fields the model
\* reads.  originalFetch: wrapNetworkRequests has saved window.fetch;
\* beforeSend, beforeBreadcrumb: "hook" a function is configured, "none" the
\* caller set the field to undefined or null; getGlobalContext: "plain" it
\* returns a JSON value, "cyclic" an object that refers to itself.
BaseConfig ==
    [dsn |-> TRUE, enableIndexedDB |-> FALSE, hasIndexedDB |-> TRUE,
     enableLocalStorage |-> FALSE, originalFetch |-> TRUE,
     batchSize |-> 2, maxRetries |-> 1, logLevel |-> "info",
     samplingRates |-> AllRates(100), maxLogsPerMinute |-> 0,
     maskFields |-> {}, beforeSend |-> "hook", beforeBreadcrumb |-> "hook",
     enableConsoleCapture |-> FALSE, maxBreadcrumbs |-> 2, dbOpens |-> TRUE,
     batchInterval |-> 1, ignoreUrls |-> <<>>, ignoreErrors |-> <<>>,
     getGlobalContext |-> "plain"]

Configs ==
    {[BaseConfig EXCEPT !.enableIndexedDB = idbOn, !.originalFetch = fetchSaved,
                        !.batchSize = size, !.maxRetries = retries] :
        idbOn \in BOOLEAN, fetchSaved \in BOOLEAN, size \in {1, 2}, retries \in {0, 1}}
    \cup {[BaseConfig EXCEPT !.dsn = FALSE, !.enableIndexedDB = idbOn] :
             idbOn \in BOOLEAN}

Obs0 ==
    [delivered |-> {}, received |-> {}, failStreak |-> 0,
     halfOpen |-> FALSE, returned |-> {}, last |-> NoOutput]

\* line 146: the constructor arms the batch timer
InitTimer ==
    LET w == startBatchTimer([timer |-> 0, timeouts |-> {}], config.batchInterval)
    IN  timer = w.timer /\ timeouts = w.timeouts

\* The store is empty when the page starts, so the read of it that
\* loadLogsFromPersistence starts in the constructor loads nothing; it is
\* pending in InitStore only.
InitCollector ==
    /\ logQueue = <<>>
    /\ isSending = FALSE
    /\ circuitOpen = FALSE
    /\ consecutiveFailures = 0
    /\ circuitResetTimer = FALSE
    /\ retryTimers = <<>>
    /\ flights = <<>>
    /\ idb = <<>>
    /\ idbOps = <<>>
    /\ lsSlot = <<>>
    /\ nextRec = 0
    /\ obs = Obs0
    /\ now = [date |-> 5, hours |-> 23, minutes |-> 58]
    /\ rateObs = [arrived |-> NoCounts, passed |-> NoCounts]
    /\ masking = [phase |-> "off"]
    /\ breadcrumbs = <<>>
    /\ crumbCount = 0
    /\ idField = NoCounts
    /\ timestamp = NoCounts
    /\ embedded = NoCounts
    /\ InitTimer
    /\ store = Store0
    /\ page = Page0

Init ==
    /\ config \in Configs
    /\ InitCollector
    /\ logCounts = NoCounts
    /\ currentMinute = 0

Next ==
    \/ CaptureLog("info", 0, "same", nextRec + 1)
    \/ \E beaconOk \in BOOLEAN : Unload(beaconOk, nextRec + 1)
    \/ \E ok \in BOOLEAN, pos \in 1..MaxRecords : IdbAdd(ok, pos, nextRec + 1)
    \/ \E ok \in BOOLEAN, beaconOk \in BOOLEAN : IdbGetAllFlush(ok, beaconOk)
    \/ \E ok \in BOOLEAN, beaconOk \in BOOLEAN : IdbGetAllUnload(ok, beaconOk)
    \/ \E ok \in BOOLEAN : IdbDelete(ok)
    \/ \E i \in 1..2, outcome \in {"ok", "skipped", "http", "throw"} : FetchDone(i, outcome)
    \/ BatchTimer
    \/ \E i \in 1..MaxTimers : RetryTimer(i)
    \/ CircuitReset

Spec == Init /\ [][Next]_vars

\* ---- the delivery engine with timers that fire ---------------------------
\* A timeout that is armed and not cleared fires: the reset timeout of the
\* circuit breaker is not left pending forever.
LiveConfigs ==
    {[BaseConfig EXCEPT !.enableIndexedDB = TRUE, !.batchSize = size,
                        !.maxRetries = retries] :
        size \in {1, 2}, retries \in {0, 1}}

InitLive ==
    /\ config \in LiveConfigs
    /\ InitCollector
    /\ logCounts = NoCounts
    /\ currentMinute = 0

SpecLive == InitLive /\ [][Next]_vars /\ WF_vars(CircuitReset)

\* ---- the sender with requests that settle --------------------------------
\* A request to the object store and a fetch are settled by the browser, with
\* success or failure: none is left pending forever.
SendConfigs ==
    {[BaseConfig EXCEPT !.enableIndexedDB = idbOn, !.batchSize = 1, !.maxRetries = 1,
                        !.getGlobalContext = context] :
        idbOn \in BOOLEAN, context \in {"plain", "cyclic"}}

InitSend ==
    /\ config \in SendConfigs
    /\ InitCollector
    /\ logCounts = NoCounts
    /\ currentMinute = 0

Settle ==
    \/ \E ok \in BOOLEAN, pos \in 1..MaxRecords : IdbAdd(ok, pos, nextRec + 1)
    \/ \E ok \in BOOLEAN, beaconOk \in BOOLEAN : IdbGetAllFlush(ok, beaconOk)
    \/ \E ok \in BOOLEAN, beaconOk \in BOOLEAN : IdbGetAllUnload(ok, beaconOk)
    \/ \E ok \in BOOLEAN : IdbDelete(ok)
    \/ \E i \in 1..2, outcome \in {"ok", "skipped", "http", "throw"} : FetchDone(i, outcome)

SpecSend == InitSend /\ [][Next]_vars /\ WF_vars(Settle)

\* ---- the collector with the rate limit on --------------------------------

\* the wall clock at construction, and the minutes gone by since
Epoch == [date |-> 5, hours |-> 23, minutes |-> 58]
minutesSince(t) ==
    (t.date - Epoch.date) * 1440 + (t.hours - Epoch.hours) * 60
        + (t.minutes - Epoch.minutes)

\* the wall clock moves into the next minute (it never runs backwards)
Tick ==
    /\ minutesSince(now) < MaxTicks
    /\ now' = IF now.minutes < 59 THEN [now EXCEPT !.minutes = @ + 1]
              ELSE IF now.hours < 23
                   THEN [now EXCEPT !.minutes = 0, !.hours = @ + 1]
                   ELSE [date |-> now.date + 1, hours |-> 0, minutes |-> 0]
    /\ Commit(Fresh)
    /\ UNCHANGED <<config, idb, masking, store, page>>

\* the setInterval callback of initRateLimiter
RateJanitor ==
    LET newMinuteKey == minuteKey(now)
        kept == {k \in DOMAIN logCounts : ~(k < newMinuteKey)}
    IN  /\ config.maxLogsPerMinute > 0
        /\ Commit([Fresh EXCEPT
                      !.logCounts = [k \in kept \cup {newMinuteKey} |->
                                         countOf(logCounts, k)],
                      !.currentMinute = newMinuteKey])
        /\ UNCHANGED <<config, idb, policyVars>>

RateConfigs ==
    {[BaseConfig EXCEPT !.dsn = FALSE, !.enableIndexedDB = idbOn,
                        !.maxLogsPerMinute = limit] :
        idbOn \in BOOLEAN, limit \in {1, 2}}

\* the constructor with maxLogsPerMinute > 0: initRateLimiter has run
InitRate ==
    /\ config \in RateConfigs
    /\ InitCollector
    /\ currentMinute = minuteKey(Epoch)
    /\ logCounts = setCount(NoCounts, minuteKey(Epoch), 0)

NextRate ==
    \/ \E level \in {"debug", "info"}, u \in {0, 99} :
          CaptureLog(level, u, "same", nextRec + 1)
    \/ Tick
    \/ RateJanitor
    \/ \E ok \in BOOLEAN, pos \in 1..MaxRecords : IdbAdd(ok, pos, nextRec + 1)
    \/ BatchTimer

SpecRate == InitRate /\ [][NextRate]_vars

\* ---- the collector with console capture on --------------------------------
ConsoleConfigs ==
    {[BaseConfig EXCEPT !.enableConsoleCapture = TRUE, !.enableIndexedDB = idbOn,
                        !.batchSize = 1, !.maxLogsPerMinute = limit,
                        !.maxBreadcrumbs = capacity, !.logLevel = level] :
        idbOn \in BOOLEAN, limit \in {0, 1}, capacity \in {0, 1, 2},
        level \in {"info", "fatal"}}

InitConsole ==
    /\ config \in ConsoleConfigs
    /\ InitCollector
    /\ currentMinute = IF config.maxLogsPerMinute > 0 THEN minuteKey(Epoch) ELSE 0
    /\ logCounts = IF config.maxLogsPerMinute > 0
                   THEN setCount(NoCounts, minuteKey(Epoch), 0) ELSE NoCounts

NextConsole ==
    \/ \E level \in {"debug", "warn"} : ConsoleCall(level)
    \/ \E fn \in {"pushState", "replaceState"} : HistoryCall(fn)
    \/ \E h \in {"same", "drop"} : AddBreadcrumb(h)
    \/ CaptureLog("fatal", 0, "same", nextRec + 1)
    \/ \E ok \in BOOLEAN, pos \in 1..MaxRecords : IdbAdd(ok, pos, nextRec + 1)
    \/ \E ok \in BOOLEAN : IdbGetAllFlush(ok, FALSE)
    \/ \E ok \in BOOLEAN : IdbDelete(ok)
    \/ \E i \in 1..2, outcome \in {"ok", "http", "throw"} : FetchDone(i, outcome)
    \/ BatchTimer
    \/ \E i \in 1..MaxTimers : RetryTimer(i)

SpecConsole == InitConsole /\ [][NextConsole]_vars

\* ---- the collector with its configuration updated at run time -----------

\* updateConfig(newConfig) (lines 163-189): newConfig is a partial
\* configuration, merged over the current one; the rate limiter is
\* initialised again when its limit is given and differs; the batch timer is
\* started again when batchInterval or batchSize is given (lines 172-174).
UpdateConfig(newConfig) ==
    LET oldMaxLogsPerMinute == config.maxLogsPerMinute
        merged == [k \in DOMAIN config |->
                      IF k \in DOMAIN newConfig THEN newConfig[k] ELSE config[k]]
        again == /\ "maxLogsPerMinute" \in DOMAIN newConfig
                 /\ newConfig.maxLogsPerMinute # oldMaxLogsPerMinute
                 /\ merged.maxLogsPerMinute > 0
        restart == "batchInterval" \in DOMAIN newConfig
                       \/ "batchSize" \in DOMAIN newConfig
        w1 == IF restart THEN startBatchTimer(Fresh, merged.batchInterval) ELSE Fresh
    IN  /\ config' = merged
        /\ Commit(IF again
                  THEN [w1 EXCEPT !.currentMinute = minuteKey(now),
                                  !.logCounts = setCount(@, minuteKey(now), 0)]
                  ELSE w1)
        /\ UNCHANGED <<idb, policyVars>>

\* the partial configurations updateConfig is called with
PartialConfigs ==
    {[logLevel |-> level] : level \in {"debug", "warn", "critical"}}
        \cup {[maxLogsPerMinute |-> limit] : limit \in {0, 1}}
        \cup {[logLevel |-> level, maxLogsPerMinute |-> limit] :
                 level \in {"info", "error"}, limit \in {0, 1}}

GateConfigs ==
    {[BaseConfig EXCEPT !.dsn = FALSE, !.enableIndexedDB = idbOn] : idbOn \in BOOLEAN}

InitGate ==
    /\ config \in GateConfigs
    /\ InitCollector
    /\ logCounts = NoCounts
    /\ currentMinute = 0

NextGate ==
    \/ \E i \in 1..Len(Levels) : CaptureLog(Levels[i], 0, "same", nextRec + 1)
    \/ \E newConfig \in PartialConfigs : UpdateConfig(newConfig)
    \/ RateJanitor
    \/ \E ok \in BOOLEAN, pos \in 1..MaxRecords : IdbAdd(ok, pos, nextRec + 1)
    \/ BatchTimer

SpecGate == InitGate /\ [][NextGate]_vars

\* ---- the rate limit changed while the collector runs -----------------------
\* updateConfig is given a positive maxLogsPerMinute, the one in force or the
\* other one; beforeSend keeps or drops the events that passed the limit.
\* All of it happens within one calendar minute.
NextRelimit ==
    \/ \E h \in {"same", "drop"} : CaptureLog("info", 0, h, nextRec + 1)
    \/ \E limit \in {1, 2} : UpdateConfig([maxLogsPerMinute |-> limit])
    \/ RateJanitor
    \/ \E ok \in BOOLEAN, pos \in 1..MaxRecords : IdbAdd(ok, pos, nextRec + 1)
    \/ BatchTimer

SpecRelimit == InitRate /\ [][NextRelimit]_vars

\* ---- the capacity of the ring changed while the collector runs -------------
\* updateConfig is given a maxBreadcrumbs below, at or above the initial 2
NextRing ==
    \/ \E h \in {"same", "drop"} : AddBreadcrumb(h)
    \/ \E capacity \in {1, 2, 3} : UpdateConfig([maxBreadcrumbs |-> capacity])
    \/ CaptureLog("info", 0, "same", nextRec + 1)
    \/ \E ok \in BOOLEAN, pos \in 1..MaxRecords : IdbAdd(ok, pos, nextRec + 1)
    \/ BatchTimer

SpecRing == InitGate /\ [][NextRing]_vars

\* ---- the collector with both stores configured -------------------------
\* dbOpens: whether indexedDB.open succeeds in this browser; when it does not
\* every request to the store is rejected (store.ts 75-80, 94-95).
StoreConfigs ==
    {[BaseConfig EXCEPT !.dsn = FALSE, !.enableIndexedDB = idbOn,
                        !.enableLocalStorage = lsOn, !.dbOpens = opens,
                        !.maskFields = fields] :
        idbOn \in BOOLEAN, lsOn \in BOOLEAN, opens \in BOOLEAN,
        fields \in {{}, {"id"}}}

\* the constructor (lines 132-143): with the durable store it has called
\* loadLogsFromPersistence, whose read of the store is pending
InitStore ==
    /\ config \in StoreConfigs
    /\ logQueue = <<>> /\ isSending = FALSE /\ circuitOpen = FALSE
    /\ consecutiveFailures = 0 /\ circuitResetTimer = FALSE
    /\ retryTimers = <<>> /\ flights = <<>> /\ idb = <<>> /\ lsSlot = <<>>
    /\ idbOps = IF indexedDBStore THEN <<[kind |-> "getAllLoad"]>> ELSE <<>>
    /\ nextRec = 0 /\ obs = Obs0 /\ now = Epoch
    /\ rateObs = [arrived |-> NoCounts, passed |-> NoCounts]
    /\ masking = [phase |-> "off"]
    /\ breadcrumbs = <<>> /\ crumbCount = 0
    /\ idField = NoCounts /\ timestamp = NoCounts /\ embedded = NoCounts
    /\ logCounts = NoCounts /\ currentMinute = 0
    /\ InitTimer
    /\ store = Store0
    /\ page = Page0

\* ---- the store's connection, with operations started at any time ----------
StoreOps == {"addLog", "getAllLogs", "deleteLogs"}

InitOpen ==
    /\ config = [BaseConfig EXCEPT !.enableIndexedDB = TRUE]
    /\ InitCollector
    /\ logCounts = NoCounts
    /\ currentMinute = 0

NextOpen ==
    \/ \E op \in StoreOps, throws \in BOOLEAN : StoreOp(op, throws)
    \/ \E p \in 1..MaxOpens : OpenSuccess(p)
    \/ \E p \in 1..MaxOpens : OpenError(p)

SpecOpen == InitOpen /\ [][NextOpen]_vars

\* ---- the capture of requests and errors -------------------------------------
\* String.prototype.includes, on strings as sequences of characters
includes(s, t) ==
    \E i \in 0..(Len(s) - Len(t)) : SubSeq(s, i + 1, i + Len(t)) = t

\* RegExp.prototype.test for the expressions of the model, /^text/
test(s, t) == Len(t) <= Len(s) /\ SubSeq(s, 1, Len(t)) = t

\* matchesUrl (lines 27-35)
matchesUrl(url, patterns) ==
    \E i \in DOMAIN patterns :
        IF patterns[i].kind = "string" THEN includes(url, patterns[i].text)
        ELSE test(url, patterns[i].text)

\* matchesError (lines 38-52): error is an Error or a string, with its
\* message; a predicate of the model accepts the errors with one message
matchesError(error, patterns) ==
    LET errorMessage == error.message
    IN  \E i \in DOMAIN patterns :
            CASE patterns[i].kind = "string" -> includes(errorMessage, patterns[i].text)
              [] patterns[i].kind = "regex" -> test(errorMessage, patterns[i].text)
              [] patterns[i].kind = "function" -> error.message = patterns[i].text
              [] OTHER -> FALSE

\* captureLog(level, ...) followed by addBreadcrumb(...), as every listener
\* of the network and error capture does; n times for n listeners
capture(w, level) ==
    addBreadcrumb(captureLog(w, level, 0, "same", w.nextRec + 1, 0), "same")

RECURSIVE captureTimes(_, _, _)
captureTimes(w, level, n) ==
    IF n = 0 THEN w ELSE captureTimes(capture(w, level), level, n - 1)

\* the step ends in state w of the collector, after the event out of the page
PageStep(w, xhr, out) ==
    /\ Commit(w)
    /\ page' = [xhr |-> xhr, last |-> [out EXCEPT !.crumbs = w.crumbCount - crumbCount]]
    /\ UNCHANGED <<config, idb, now, masking, store>>

\* XMLHttpRequest.prototype.open as wrapped (lines 347-356), on an object
\* that has no request under way
XhrOpen(url) ==
    /\ config.originalFetch
    /\ page.xhr.state # "sent"
    /\ PageStep(Fresh,
                [page.xhr EXCEPT
                    !.skipCapture = IF matchesUrl(url, config.ignoreUrls) THEN TRUE ELSE @,
                    !.url = url, !.state = "opened"],
                NoPageOutput)

\* XMLHttpRequest.prototype.send as wrapped (lines 358-398)
XhrSend ==
    /\ config.originalFetch
    /\ page.xhr.state = "opened"
    /\ ~page.xhr.skipCapture => page.xhr.listeners < MaxSends
    /\ PageStep(Fresh,
                [page.xhr EXCEPT
                    !.listeners = IF page.xhr.skipCapture THEN @ ELSE @ + 1,
                    !.state = "sent"],
                NoPageOutput)

\* The request ends.  "response": load, loadend; "error" (a network
\* failure): error, loadend.  Each event runs the listeners added for it.
XhrDone(outcome) ==
    /\ page.xhr.state = "sent"
    /\ LET n == page.xhr.listeners
           w1 == IF outcome = "error" THEN captureTimes(Fresh, "error", n) ELSE Fresh
       IN  PageStep(captureTimes(w1, "info", n),
                    [page.xhr EXCEPT !.state = "done"],
                    [NoPageOutput EXCEPT
                        !.request = <<[url |-> page.xhr.url, outcome |-> outcome]>>])

\* window.fetch as wrapped (lines 401-443), from the call to the answer
WrappedFetch(url, outcome) ==
    /\ config.originalFetch
    /\ PageStep(IF matchesUrl(url, config.ignoreUrls) THEN Fresh
                ELSE capture(Fresh, IF outcome = "error" THEN "error" ELSE "info"),
                page.xhr,
                [NoPageOutput EXCEPT
                    !.request = <<[url |-> url, outcome |-> outcome]>>])

\* window.onerror (lines 304-318).  hasError: the event carries an error
\* object, whose message is message; otherwise message is all it carries.
WindowOnError(message, hasError) ==
    /\ LET error == [kind |-> "Error", message |-> message]
       IN  PageStep(IF hasError /\ matchesError(error, config.ignoreErrors) THEN Fresh
                    ELSE capture(Fresh, "error"),
                    page.xhr,
                    [NoPageOutput EXCEPT
                        !.error = <<[source |-> "onerror", message |-> message,
                                     prevented |-> FALSE]>>])

\* window.onunhandledrejection (lines 320-337); the reason is an Error or a
\* string
UnhandledRejection(kind, message) ==
    /\ LET reason == [kind |-> kind, message |-> message]
       IN  PageStep(IF matchesError(reason, config.ignoreErrors) THEN Fresh
                    ELSE capture(Fresh, "error"),
                    page.xhr,
                    [NoPageOutput EXCEPT
                        !.error = <<[source |-> "rejection", message |-> message,
                                     prevented |-> TRUE]>>])

\* error(error, context) (lines 576-588)
ErrorApi(kind, message) ==
    /\ LET error == [kind |-> kind, message |-> message]
       IN  PageStep(IF matchesError(error, config.ignoreErrors) THEN Fresh
                    ELSE captureLog(Fresh, "error", 0, "same", nextRec + 1, 0),
                    page.xhr,
                    [NoPageOutput EXCEPT
                        !.error = <<[source |-> "error()", message |-> message,
                                     prevented |-> FALSE]>>])

\* ignoreUrls: the string 'a' and /^b/; ignoreErrors: the string 'a', /^b/
\* and a predicate that accepts the message 'c'
Texts == {<<"x", "a">>, <<"b", "x">>, <<"x", "b">>, <<"c">>}

CaptureConfigs ==
    {[BaseConfig EXCEPT
         !.dsn = FALSE, !.enableIndexedDB = idbOn,
         !.ignoreUrls = <<[kind |-> "string", text |-> <<"a">>],
                          [kind |-> "regex", text |-> <<"b">>]>>,
         !.ignoreErrors = <<[kind |-> "string", text |-> <<"a">>],
                            [kind |-> "regex", text |-> <<"b">>],
                            [kind |-> "function", text |-> <<"c">>]>>] :
        idbOn \in BOOLEAN}

InitCapture ==
    /\ config \in CaptureConfigs
    /\ InitCollector
    /\ logCounts = NoCounts
    /\ currentMinute = 0

NextCapture ==
    \/ \E url \in Texts : XhrOpen(url)
    \/ XhrSend
    \/ \E outcome \in {"response", "error"} : XhrDone(outcome)
    \/ \E url \in Texts, outcome \in {"response", "error"} : WrappedFetch(url, outcome)
    \/ \E message \in Texts, hasError \in BOOLEAN : WindowOnError(message, hasError)
    \/ \E kind \in {"Error", "string"}, message \in Texts : UnhandledRejection(kind, message)
    \/ \E kind \in {"Error", "string"}, message \in Texts : ErrorApi(kind, message)

SpecCapture == InitCapture /\ [][NextCapture]_vars

\* ---- the collector on a page whose store is not empty ----------------------
\* The store holds the records an earlier page left in it (each with its id
\* and timestamp), and the constructor's loadLogsFromPersistence is pending.
ReloadConfigs ==
    {[BaseConfig EXCEPT !.enableIndexedDB = TRUE, !.maxRetries = 0,
                        !.batchSize = size] : size \in {1, 2}}

InitReload ==
    /\ config \in ReloadConfigs
    /\ logQueue = <<>> /\ isSending = FALSE /\ circuitOpen = FALSE
    /\ consecutiveFailures = 0 /\ circuitResetTimer = FALSE
    /\ retryTimers = <<>> /\ flights = <<>> /\ lsSlot = <<>>
    /\ idbOps = <<[kind |-> "getAllLoad"]>>
    /\ \E n \in 1..MaxRecords :
          /\ idb = [r \in 1..n |-> r] /\ nextRec = n
          /\ idField = [r \in 1..n |-> r]
          /\ timestamp = [r \in 1..n |-> minuteKey(Epoch)]
          /\ embedded = [r \in 1..n |-> [ref |-> r, elems |-> <<>>]]
    /\ obs = Obs0 /\ now = Epoch
    /\ rateObs = [arrived |-> NoCounts, passed |-> NoCounts]
    /\ masking = [phase |-> "off"]
    /\ breadcrumbs = <<>> /\ crumbCount = 0
    /\ logCounts = NoCounts /\ currentMinute = 0
    /\ InitTimer
    /\ store = Store0
    /\ page = Page0

NextReload ==
    \/ CaptureLog("info", 0, "same", nextRec + MaxRecords + 1)
    \/ \E ok \in BOOLEAN : IdbGetAllLoad(ok)
    \/ \E ok \in BOOLEAN, pos \in 1..MaxRecords :
          IdbAdd(ok, pos, nextRec + MaxRecords + 1)
    \/ \E ok \in BOOLEAN : IdbGetAllFlush(ok, FALSE)
    \/ \E ok \in BOOLEAN : IdbDelete(ok)
    \/ \E i \in 1..2, outcome \in {"ok", "http"} : FetchDone(i, outcome)
    \/ BatchTimer
    \/ Unload(FALSE, nextRec + MaxRecords + 1)
    \/ \E ok \in BOOLEAN : IdbGetAllUnload(ok, FALSE)

SpecReload == InitReload /\ [][NextReload]_vars

\* generateUUID draws from 1..MaxIds: two draws can give the same id
NextStore ==
    \/ \E h \in {"same", "drop", "replace"}, uuid \in 1..MaxIds :
          CaptureLog("info", 0, h, uuid)
    \/ \E ok \in BOOLEAN : IdbGetAllLoad(ok)
    \/ \E ok \in BOOLEAN, pos \in 1..MaxRecords, uuid \in 1..MaxIds : IdbAdd(ok, pos, uuid)
    \/ \E uuid \in 1..MaxIds : Unload(FALSE, uuid)
    \/ \E ok \in BOOLEAN : IdbGetAllUnload(ok, FALSE)
    \/ Tick
    \/ BatchTimer

SpecStore == InitStore /\ [][NextStore]_vars

\* ---- the collector with a beforeSend hook that drops and replaces --------
HookConfigs ==
    {[BaseConfig EXCEPT !.enableIndexedDB = idbOn, !.enableLocalStorage = lsOn,
                        !.batchSize = size, !.maxRetries = 0] :
        idbOn \in BOOLEAN, lsOn \in BOOLEAN, size \in {1, 2}}

InitHook ==
    /\ config \in HookConfigs
    /\ InitCollector
    /\ logCounts = NoCounts
    /\ currentMinute = 0

NextHook ==
    \/ \E h \in {"same", "drop", "replace"} : CaptureLog("info", 0, h, nextRec + 1)
    \/ \E ok \in BOOLEAN, pos \in 1..MaxRecords : IdbAdd(ok, pos, nextRec + 1)
    \/ \E ok \in BOOLEAN : IdbGetAllFlush(ok, FALSE)
    \/ \E ok \in BOOLEAN : IdbDelete(ok)
    \/ \E i \in 1..2, outcome \in {"ok", "http"} : FetchDone(i, outcome)
    \/ BatchTimer

SpecHook == InitHook /\ [][NextHook]_vars

\* ---- the collector reconfigured while it runs ------------------------------
\* updateConfig with a new interval, a new batch size, or neither
TimerPartials ==
    {[batchInterval |-> interval] : interval \in {1, 2}}
        \cup {[batchSize |-> size] : size \in {1, 2}}
        \cup {[logLevel |-> "debug"]}

TimerConfigs ==
    {[BaseConfig EXCEPT !.enableIndexedDB = idbOn, !.maxRetries = 0] :
        idbOn \in BOOLEAN}

InitTimerSpec ==
    /\ config \in TimerConfigs
    /\ InitCollector
    /\ logCounts = NoCounts
    /\ currentMinute = 0

NextTimer ==
    \/ CaptureLog("info", 0, "same", nextRec + 1)
    \/ \E newConfig \in TimerPartials : UpdateConfig(newConfig)
    \/ \E ok \in BOOLEAN, pos \in 1..MaxRecords : IdbAdd(ok, pos, nextRec + 1)
    \/ \E ok \in BOOLEAN : IdbGetAllFlush(ok, FALSE)
    \/ \E ok \in BOOLEAN : IdbDelete(ok)
    \/ \E i \in 1..2, outcome \in {"ok", "http", "throw"} : FetchDone(i, outcome)
    \/ BatchTimer
    \/ CircuitReset

SpecTimer == InitTimerSpec /\ [][NextTimer]_vars

\* ---- the masking step of captureLog ---------------------------------------
\* A JavaScript value is a node [tag, str, kids]: tag is "string",
\* "undefined", "null", "object" or "array"; kids is the sequence of own
\* properties <<key, value>> in enumeration order (of an array: its indices).

Str(x) == [tag |-> "string", str |-> x, kids |-> <<>>]
Undefined == [tag |-> "undefined", str |-> "", kids |-> <<>>]
Null == [tag |-> "null", str |-> "", kids |-> <<>>]
Obj(props) == [tag |-> "object", str |-> "", kids |-> props]
Arr(props) == [tag |-> "array", str |-> "", kids |-> props]

\* typeof v === 'object'
isObjectType(v) == v.tag \in {"object", "array", "null"}

RECURSIVE jsonRoundTrip(_)
\* JSON.parse(JSON.stringify(v)): a property whose value is undefined is left
\* out, an undefined array element comes back as null
jsonRoundTrip(v) ==
    IF v.tag = "object"
    THEN LET present == SelectSeq(v.kids, LAMBDA kv : kv[2].tag # "undefined")
         IN  Obj([i \in 1..Len(present) |->
                      <<present[i][1], jsonRoundTrip(present[i][2])>>])
    ELSE IF v.tag = "array"
    THEN Arr([i \in 1..Len(v.kids) |->
                  <<v.kids[i][1],
                    IF v.kids[i][2].tag = "undefined" THEN Null
                    ELSE jsonRoundTrip(v.kids[i][2])>>])
    ELSE v

\* the traversal that stops at the first level
traverseAndMask_shallow(current, fieldsToMask) ==
    IF current.tag \notin {"object", "array"} THEN current
    ELSE [current EXCEPT !.kids =
            [i \in 1..Len(current.kids) |->
                IF current.kids[i][1] \in fieldsToMask
                THEN <<current.kids[i][1], Str("********")>>
                ELSE current.kids[i]]]

RECURSIVE traverseAndMask(_, _)
\* the value current holds once traverseAndMask(current) has returned
traverseAndMask(current, fieldsToMask) ==
    IF current.tag \notin {"object", "array"} THEN current
    ELSE [current EXCEPT !.kids =
            [i \in 1..Len(current.kids) |->
                LET key == current.kids[i][1]
                    value == current.kids[i][2]
                IN  IF key \in fieldsToMask THEN <<key, Str("********")>>
                    ELSE IF isObjectType(value)
                    THEN <<key, traverseAndMask(value, fieldsToMask)>>
                    ELSE <<key, value>>]]

\* result: the value returned; argument: the caller's object after the call
maskSensitiveFields(obj, fieldsToMask) ==
    [result |-> traverseAndMask(jsonRoundTrip(obj), fieldsToMask),
     argument |-> obj]

\* the property with the given key, of an object that has it
prop(v, key) ==
    LET i == CHOOSE j \in 1..Len(v.kids) : v.kids[j][1] = key IN v.kids[i][2]

\* lines 642-660: the entry is built around the caller's context object
\* (logEntry.context is that object, not a copy), then masked
Mask ==
    /\ masking.phase = "built"
    /\ LET logEntry == Obj(<<<<"message", Str("m")>>, <<"context", masking.context>>>>)
           m == maskSensitiveFields(logEntry, config.maskFields)
       IN  masking' =
               IF config.beforeSend # "none" /\ config.maskFields # {}
               THEN [masking EXCEPT !.phase = "masked", !.logEntry = m.result,
                                    !.context = prop(m.argument, "context")]
               ELSE [masking EXCEPT !.phase = "unmasked", !.logEntry = logEntry]
    /\ Commit(Fresh)
    /\ UNCHANGED <<config, idb, now, store, page>>

\* the values a caller passes: strings, undefined, mappings and arrays of them
Keys == {"password", "keep"}
KeyOrder == <<"password", "keep">>
Leaves == {Str("s"), Undefined}

Absent == [tag |-> "absent", str |-> "", kids |-> <<>>]
ObjectsOver(vals) ==
    {Obj(SelectSeq([i \in 1..Len(KeyOrder) |-> <<KeyOrder[i], f[KeyOrder[i]]>>],
                   LAMBDA kv : kv[2] # Absent)) :
        f \in [Keys -> vals \cup {Absent}]}
ArraysOver(vals) == {Arr(<<>>)} \cup {Arr(<<<<"0", v>>>>) : v \in vals}

RECURSIVE Values(_)
Values(depth) ==
    IF depth = 0 THEN Leaves
    ELSE LET below == Values(depth - 1)
         IN  below \cup ObjectsOver(below) \cup ArraysOver(below)

\* beforeSend: the default hook, or undefined (given to the constructor or set
\* by updateConfig: both spread the caller's object over the configuration)
MaskConfigs ==
    {[BaseConfig EXCEPT !.dsn = FALSE, !.maskFields = fields, !.beforeSend = hook] :
        fields \in SUBSET Keys, hook \in {"hook", "none"}}

InitMask ==
    /\ config \in MaskConfigs
    /\ logQueue = <<>> /\ isSending = FALSE /\ circuitOpen = FALSE
    /\ consecutiveFailures = 0 /\ circuitResetTimer = FALSE
    /\ retryTimers = <<>> /\ flights = <<>> /\ idb = <<>> /\ idbOps = <<>>
    /\ lsSlot = <<>> /\ nextRec = 0 /\ obs = Obs0
    /\ now = Epoch /\ logCounts = NoCounts /\ currentMinute = 0
    /\ rateObs = [arrived |-> NoCounts, passed |-> NoCounts]
    /\ breadcrumbs = <<>> /\ crumbCount = 0 /\ idField = NoCounts /\ timestamp = NoCounts
    /\ embedded = NoCounts
    /\ InitTimer
    /\ store = Store0
    /\ page = Page0
    /\ \E c \in ObjectsOver(Values(MaxDepth - 1)) :
          masking = [phase |-> "built", given |-> c, context |-> c, logEntry |-> Null]

NextMask ==
    \/ Mask
    \/ \E hook \in {"hook", "none"} : UpdateConfig([beforeSend |-> hook])

SpecMask == InitMask /\ [][NextMask]_vars

\* ---- properties of the delivery engine ------------------------------------
flushesInProgress ==
    Len(flights) + Cardinality({i \in 1..Len(idbOps) : idbOps[i].kind = "getAllFlush"})

\* the places where the collector still holds a record it has not delivered
Held(r) ==
    \/ r \in Range(logQueue)
    \/ r \in Range(idb)
    \/ \E i \in 1..Len(idbOps) :
          idbOps[i].kind \in {"addAll", "addAllUnload"} /\ r \in Range(idbOps[i].todo)
    \/ \E i \in 1..Len(flights) : r \in Range(flights[i].logsToSend)

\* C1: every record captureLog accepted was passed to onSendSuccess or is
\* still held (in the durable store, or on its way into it or to the wire).
C1_AtLeastOnce == \A r \in 1..nextRec : r \in obs.delivered \/ Held(r)

\* C2: after 5 failed flushes in a row the circuit is open, and no flush puts
\* a batch on the wire while it is open.
C2_OpenAfterFiveFailures ==
    /\ obs.failStreak >= CIRCUIT_BREAKER_THRESHOLD => circuitOpen
    /\ ~obs.last.postWhileOpen

\* C3: the first flush after the reset decides: a failure opens the circuit
\* again, a success closes it.
C3_HalfOpen ==
    obs.last.halfOpen =>
        /\ obs.last.outcome \in {"http", "throw"} => circuitOpen
        /\ obs.last.outcome \in {"ok", "beacon"} => ~circuitOpen

\* C4: at most one flushQueue execution is between taking isSending and
\* releasing it, and isSending is set exactly while there is one.
C4_MutualExclusion ==
    /\ flushesInProgress <= 1
    /\ isSending <=> flushesInProgress = 1

C4_Witness ==
    /\ obs.last.blocked /\ isSending /\ ~circuitOpen
    /\ Len(flights) = 1

\* C5: a flush that got a non-2xx response or whose fetch threw added one to
\* the failure counter and called onSendFailure once, with its batch.
C5_FailureAccounting ==
    obs.last.outcome \in {"http", "throw"} =>
        /\ consecutiveFailures = obs.last.failuresBefore + 1
        /\ obs.last.onSendFailure = <<obs.last.flushed>>

\* C6: a retry puts the batch that failed on the wire again, records in the
\* same order.
C6_RetrySameBatch == ~obs.last.retryOther

\* C7: onSendSuccess is called only for a batch a transport accepted (a 2xx
\* response or a queued beacon).
C7_SuccessOnlyIfAccepted ==
    /\ obs.delivered \subseteq obs.received
    /\ obs.last.onSendSuccess # <<>> => obs.last.outcome \in {"ok", "beacon"}

\* C8: a successful flush of B leaves the counter at 0 and the circuit closed
\* and calls onSendSuccess once, with B; the deletion that follows removes the
\* ids of B from the durable store and nothing else.
C8_SuccessEffects ==
    [][/\ (obs'.last.outcome \in {"ok", "beacon"} \/ obs'.last.onSendSuccess # <<>>) =>
            /\ consecutiveFailures' = 0
            /\ ~circuitOpen' /\ ~circuitResetTimer'
            /\ obs'.last.onSendSuccess = <<obs'.last.flushed>>
            /\ Range(obs'.last.flushed) \subseteq obs'.delivered
       /\ obs'.last.deleted # {} =>
            /\ Range(idb') \cap obs'.last.deleted = {}
            /\ idb' = SelectSeq(idb, LAMBDA r : r \notin obs'.last.deleted)
            /\ (config.batchSize = 2 /\ nextRec = 2 /\ obs'.last.deleted = {1, 2})
                   => idb' = <<>>]_vars

C8_Witness ==
    /\ config.enableIndexedDB /\ config.originalFetch /\ config.batchSize = 2
    /\ nextRec = 2 /\ obs.delivered = {1, 2} /\ obs.last.deleted = {1, 2}
    /\ idb = <<>>

RECURSIVE SumCounts(_)
SumCounts(counts) ==
    IF DOMAIN counts = {} THEN 0
    ELSE LET k == CHOOSE x \in DOMAIN counts : TRUE
         IN  counts[k] + SumCounts([x \in DOMAIN counts \ {k} |-> counts[x]])

stored ==
    Range(logQueue) \cup Range(idb)
        \cup UNION {Range(idbOps[i].todo) :
                    i \in {j \in 1..Len(idbOps) : idbOps[j].kind \in {"addAll", "addAllUnload"}}}

\* C9: with the limit M > 0 held constant and a clock that does not run
\* backwards, of the events that reach the rate-limit step in one calendar
\* minute exactly the first M pass (so at most M); the later ones are dropped,
\* and the queue and the store hold only records that passed.
C9_RateLimit ==
    /\ \A k \in DOMAIN rateObs.arrived :
          countOf(rateObs.passed, k) = Min(rateObs.arrived[k], config.maxLogsPerMinute)
    /\ nextRec = SumCounts(rateObs.passed)
    /\ stored \subseteq 1..nextRec

\* a minute in which more than M events arrived and M passed, after an
\* earlier minute that also used up its limit
C9_Witness ==
    \E k1, k2 \in DOMAIN rateObs.arrived :
        /\ k1 < k2
        /\ rateObs.arrived[k1] > config.maxLogsPerMinute
        /\ rateObs.arrived[k2] > config.maxLogsPerMinute
        /\ countOf(rateObs.passed, k2) = config.maxLogsPerMinute
        /\ Cardinality(stored) = 2 * config.maxLogsPerMinute

RECURSIVE allMasked(_, _)
\* every key of v named in K, at any depth, holds the mask
allMasked(v, K) ==
    \A i \in 1..Len(v.kids) :
        IF v.kids[i][1] \in K THEN v.kids[i][2] = Str("********")
        ELSE allMasked(v.kids[i][2], K)

RECURSIVE sameOutside(_, _, _)
\* v and w are the same value except under the keys named in K
sameOutside(v, w, K) ==
    /\ v.tag = w.tag /\ v.str = w.str /\ Len(v.kids) = Len(w.kids)
    /\ \A i \in 1..Len(v.kids) :
          /\ v.kids[i][1] = w.kids[i][1]
          /\ v.kids[i][1] \in K \/ sameOutside(v.kids[i][2], w.kids[i][2], K)

builtEntry == Obj(<<<<"message", Str("m")>>, <<"context", masking.given>>>>)

\* C10 as stated: after masking every key in K holds the mask at any depth,
\* every value not under such a key is what the caller passed, and the
\* caller's context object is as it was.
C10_MaskingUnchanged ==
    masking.phase = "masked" =>
        /\ allMasked(masking.logEntry, config.maskFields)
        /\ sameOutside(masking.logEntry, builtEntry, config.maskFields)
        /\ masking.context = masking.given

\* C10: after masking every key in K holds the mask at any depth, every value
\* not under such a key is the JSON round trip of what the caller passed
\* (a property whose value is undefined is gone, an undefined array element
\* is null), and the caller's context object is as it was.
C10_Masking ==
    masking.phase = "masked" =>
        /\ allMasked(masking.logEntry, config.maskFields)
        /\ sameOutside(masking.logEntry, jsonRoundTrip(builtEntry), config.maskFields)
        /\ masking.context = masking.given

\* info("x", {password: "s", keep: {password: "s", keep: "s"}}) with
\* maskFields = ["password"]: both passwords masked, the inner keep kept
C10_Witness ==
    /\ masking.phase = "masked"
    /\ config.maskFields = {"password"}
    /\ masking.given = Obj(<<<<"password", Str("s")>>,
                             <<"keep", Obj(<<<<"password", Str("s")>>,
                                             <<"keep", Str("s")>>>>)>>>>)
    /\ prop(masking.logEntry, "context") =
           Obj(<<<<"password", Str("********")>>,
                 <<"keep", Obj(<<<<"password", Str("********")>>,
                                 <<"keep", Str("s")>>>>)>>>>)

\* ---- properties of the breadcrumb ring and of the console wrappers --------

\* C11: with the capacity fixed, the ring holds exactly the last
\* min(N, capacity) of the N breadcrumbs pushed, in the order of their push.
C11_BreadcrumbRing ==
    LET kept == Min(crumbCount, config.maxBreadcrumbs)
    IN  breadcrumbs = [i \in 1..kept |-> crumbCount - kept + i]

C11_Witness ==
    /\ config.maxBreadcrumbs = 2
    /\ crumbCount = 4
    /\ breadcrumbs = <<3, 4>>

\* C18: no console output of the collector or of the store enters captureLog.
C18_NoReentrancy == ~obs.last.reentered


\* C12: an event of level L is stopped by the level gate exactly when L ranks
\* below the configured logLevel in trace < debug < info < warn < error <
\* fatal < critical, where the configured level is the one in force when the
\* event is captured: the one updateConfig set last, if it set one.
C12_LevelGate ==
    \A i \in 1..Len(obs.last.captured) :
        LET e == obs.last.captured[i]
        IN  (e.verdict = "gated") <=> (Rank(e.level) < Rank(config.logLevel))

\* after updateConfig({logLevel: 'warn'}) an info event, which the initial
\* configuration lets through, is gated
C12_Witness ==
    /\ config.logLevel = "warn"
    /\ \E i \in 1..Len(obs.last.captured) :
          obs.last.captured[i].level = "info" /\ obs.last.captured[i].verdict = "gated"

\* C13: in every batch handed to the transport (a POST or a beacon) the
\* records are in the order they were captured in, whether the batch was read
\* from the durable store or spliced from the in-memory queue.  Records are
\* numbered in capture order.
C13_BatchOrder ==
    \A batch \in Range(obs.last.post) \cup Range(obs.last.beacon) :
        \A i, j \in 1..Len(batch) : i < j => batch[i] < batch[j]

\* C14: when a capture has finished (processQueue has run) and batchSize or
\* more records are waiting, a flush was requested by that capture, with the
\* records in the in-memory queue and with the records in the durable store.
C14_SizeTrigger ==
    (obs.last.trigger # "none" /\ Len(logQueue) + Len(idb) >= config.batchSize)
        => obs.last.trigger = "flush"

\* C15: when the page-unload listener gets to its send with records pending
\* (in the in-memory queue or in the durable store), a dsn and a beacon that
\* accepts, it makes exactly one beacon call, that call carries every pending
\* record, and in durable mode the removal of their ids from the store is
\* requested; this also when a flush is in progress at that moment.
C15_UnloadBeacon ==
    LET sent == UNION {Range(obs.last.beacon[i]) : i \in 1..Len(obs.last.beacon)}
        pending == Range(logQueue) \cup Range(idb) \cup sent
    IN  (obs.last.unload = "accepting" /\ config.dsn /\ pending # {}) =>
            /\ Len(obs.last.beacon) = 1
            /\ pending \subseteq Range(obs.last.beacon[1])
            /\ indexedDBStore =>
                  \E i \in 1..Len(idbOps) :
                      /\ idbOps[i].kind = "delete"
                      /\ idsOf(World, obs.last.beacon[1]) \subseteq idbOps[i].ids

\* C16: when the write of a set of records to the durable store has failed in
\* captureLog, the records of that set are at the front of the in-memory
\* queue, each once and in their order, and with the fallback store enabled
\* they are in the localStorage slot.
C16_WriteFailureRequeues ==
    LET failedSet == obs.last.persistFailed
    IN  failedSet # <<>> =>
            /\ Len(logQueue) >= Len(failedSet)
            /\ SubSeq(logQueue, 1, Len(failedSet)) = failedSet
            /\ \A r \in Range(failedSet) :
                  Cardinality({i \in 1..Len(logQueue) : logQueue[i] = r}) = 1
            /\ config.enableLocalStorage => Range(failedSet) \subseteq Range(lsSlot)

\* C17: with enableIndexedDB and enableLocalStorage both configured and a
\* durable store that cannot be opened, every accepted record whose capture
\* has finished is in the localStorage slot.
C17_FallThrough ==
    (config.enableIndexedDB /\ config.hasIndexedDB /\ config.enableLocalStorage
         /\ ~config.dbOpens) =>
        \A r \in 1..nextRec :
            \/ r \in Range(lsSlot)
            \/ \E i \in 1..Len(idbOps) :
                  idbOps[i].kind = "addAll" /\ r \in Range(idbOps[i].logsToPersist)

anywhere ==
    Range(logQueue) \cup Range(lsSlot) \cup Range(idb)
        \cup UNION {Range(idbOps[i].logsToPersist) :
                      i \in {j \in 1..Len(idbOps) :
                               idbOps[j].kind \in {"addAll", "addAllUnload"}}}
        \cup UNION {Range(flights[i].logsToSend) : i \in 1..Len(flights)}
        \cup obs.received \cup obs.delivered

\* C20: a record for which beforeSend returned a nullish value is not queued,
\* not persisted and not delivered; when beforeSend returned a record, that
\* record is queued or on its way to a store or to the endpoint, and the
\* record the hook was given, if it is another one, is not; nothing but
\* records that came out of the hook step is ever queued, stored or delivered.
C20_BeforeSend ==
    /\ anywhere \subseteq obs.returned
    /\ \A i \in 1..Len(obs.last.hook) :
          LET e == obs.last.hook[i]
          IN  /\ e.returned = 0 => e.given \notin anywhere
              /\ e.returned # 0 => e.returned \in anywhere
              /\ e.returned \notin {0, e.given} => e.given \notin anywhere

\* a record the hook returned in place of the one it was given was delivered
\* after the hook had dropped another
C20_Witness ==
    /\ \E r \in obs.delivered : r < 0
    /\ \E i \in 1..Len(obs.last.hook) : obs.last.hook[i].returned = 0

\* C21: a flushQueue call made by the batch timer while another flush is in
\* progress, while the circuit is open or without a dsn leaves the in-memory
\* queue, the durable store and the requests to it, isSending, the circuit,
\* the failure counter and the timers as they were, and puts nothing on the
\* wire.
C21_ShortCircuit ==
    [][(BatchTimer /\ (isSending \/ circuitOpen \/ ~config.dsn)) =>
           /\ UNCHANGED <<logQueue, idb, idbOps, lsSlot, isSending, circuitOpen,
                          consecutiveFailures, circuitResetTimer, retryTimers, flights>>
           /\ obs'.last.post = <<>> /\ obs'.last.beacon = <<>>
           /\ obs'.last.blocked]_vars

\* the batch timer has ticked with the circuit open and a record waiting
C21_Witness ==
    /\ obs.last.blocked /\ circuitOpen /\ ~isSending
    /\ obs.last.trigger = "none" /\ obs.last.outcome = "none"
    /\ Len(logQueue) + Len(idb) > 0

\* C22: whenever the circuit is open, it is later closed again by the reset
\* timeout, whose callback calls flushQueue at once: the flush is attempted
\* in that step, without a new record and without a tick of the batch timer.
C22_CircuitRecovers ==
    circuitOpen ~> (~circuitOpen /\ obs.halfOpen /\ obs.last.attempted)

\* the reset timeout has fired and its flush has passed the guard
C22_Witness ==
    /\ ~circuitOpen /\ obs.halfOpen /\ obs.last.attempted
    /\ obs.last.trigger = "none" /\ flushesInProgress = 1

\* C23: when a flush has succeeded and records remain undelivered (in the
\* durable store, or in the in-memory queue when there is no durable store),
\* the flush's finally block has asked for another flush, however few remain.
C23_DrainContinues ==
    LET remaining == IF indexedDBStore THEN Range(idb) \ Range(obs.last.flushed)
                     ELSE Range(logQueue)
    IN  (obs.last.outcome \in {"ok", "beacon"} /\ remaining # {})
            => obs.last.trigger = "flush"

\* C24: in every state exactly one batch timeout is pending, the one whose
\* handle is in this.timer, with the current batchInterval as its delay, also
\* after a tick, which calls flushQueue (it runs or returns at its guard);
\* updateConfig with batchInterval or batchSize cancels the pending timeout
\* and arms a new one, any other updateConfig leaves it alone.
oneBatchTimer ==
    timeouts = {[id |-> timer, delay |-> config.batchInterval]}

C24_BatchTimer ==
    [][/\ oneBatchTimer /\ oneBatchTimer'
       /\ BatchTimer => (obs'.last.blocked \/ obs'.last.attempted)
       /\ \A newConfig \in TimerPartials :
              UpdateConfig(newConfig) =>
                  IF DOMAIN newConfig \cap {"batchInterval", "batchSize"} # {}
                  THEN timer' # timer
                  ELSE UNCHANGED <<timer, timeouts>>]_vars

\* a tick that ran a flush, after updateConfig had changed the interval
C24_Witness ==
    /\ obs.last.tick /\ obs.last.attempted
    /\ config.batchInterval = 2
    /\ timeouts = {[id |-> timer, delay |-> 2]}

\* C25: when the last addLog of a batch persisted together (the queue copy of
\* captureLog, the pending queue of the unload listener) has settled, the
\* batch has put all of its records into the store, and they stand there in
\* capture order, or it has put none of them there.
C25_AtomicBatch ==
    \A i \in DOMAIN obs.last.persisted :
        LET p == obs.last.persisted[i]
        IN  \/ p.added = {}
            \/ /\ p.added = Range(p.batch)
               /\ \A j, k \in DOMAIN p.batch :
                      (j < k /\ p.batch[j] \in Range(idb) /\ p.batch[k] \in Range(idb))
                          => \E a, b \in DOMAIN idb :
                                 a < b /\ idb[a] = p.batch[j] /\ idb[b] = p.batch[k]

\* C26: at most one open request is pending and every operation that waits
\* for the database waits for that request; when it succeeds all of them go
\* on with the handle it produced; an operation started while the database
\* is not open and no open request is pending issues a new open request.
C26_SharedOpen ==
    [][/\ Cardinality(store'.pending) <= 1
       /\ \A i \in DOMAIN store'.awaiting : store'.awaiting[i].promise \in store'.pending
       /\ \A p \in store.pending :
              OpenSuccess(p) =>
                  /\ Len(store'.last.proceeded) = Len(store.awaiting)
                  /\ \A i \in DOMAIN store'.last.proceeded :
                         store'.last.proceeded[i].db = store'.db
       /\ (store.db = 0 /\ store.pending = {} /\ store'.calls # store.calls)
              => store'.last.opened]_vars

\* C27: when the delete of one id of deleteLogs(ids) has failed, the promise
\* is resolved and no record with one of the other ids is left in the store.
C27_IndependentDeletes ==
    \A i \in DOMAIN obs.last.deleteFailed :
        LET f == obs.last.deleteFailed[i]
        IN  /\ f.resolved
            /\ \A r \in Range(idb) : idOf(World, r) \notin f.ids \ {f.bad}

\* C28: a fetch or XHR whose URL matches ignoreUrls has, when it ends, been
\* routed to captureLog by nothing and has left no breadcrumb; one whose URL
\* does not match has been captured and has left a breadcrumb.
C28_IgnoreUrls ==
    \A i \in DOMAIN page.last.request :
        IF matchesUrl(page.last.request[i].url, config.ignoreUrls)
        THEN obs.last.captured = <<>> /\ page.last.crumbs = 0
        ELSE obs.last.captured # <<>> /\ page.last.crumbs > 0

\* C29: a request that is not ignored has, when it ends, been routed to
\* captureLog exactly once (info for a response, error for a network
\* failure) and has left exactly one breadcrumb.
C29_OneCapture ==
    \A i \in DOMAIN page.last.request :
        LET request == page.last.request[i]
        IN  ~matchesUrl(request.url, config.ignoreUrls) =>
                /\ Len(obs.last.captured) = 1
                /\ obs.last.captured[1].level =
                       (IF request.outcome = "error" THEN "error" ELSE "info")
                /\ page.last.crumbs = 1

\* C30: an uncaught error, an unhandled rejection or a value passed to
\* error() whose message matches ignoreErrors is not routed to captureLog and
\* leaves no breadcrumb; the default handling of such a rejection is
\* prevented.
C30_IgnoreErrors ==
    \A i \in DOMAIN page.last.error :
        LET e == page.last.error[i]
        IN  matchesError([kind |-> "string", message |-> e.message], config.ignoreErrors) =>
                /\ obs.last.captured = <<>>
                /\ page.last.crumbs = 0
                /\ e.source = "rejection" => e.prevented

\* C32: with a non-empty maskFields every record that left the masking step of
\* captureLog on its way to the queue has been masked, whether or not a
\* beforeSend hook is configured.
C32_MaskAlways ==
    (masking.phase # "built" /\ config.maskFields # {}) =>
        /\ masking.phase = "masked"
        /\ allMasked(masking.logEntry, config.maskFields)

\* C33: the breadcrumbs embedded in a record are the ring's contents when the
\* record was built, and no later step (breadcrumbs added or evicted, the
\* record stored, flushed or retried) changes the list a record carries.
C33_Snapshot ==
    [][/\ \A r \in DOMAIN embedded :
             /\ r \in DOMAIN embedded'
             /\ elements(embedded'[r], breadcrumbs') = elements(embedded[r], breadcrumbs)
       /\ \A r \in DOMAIN embedded' \ DOMAIN embedded :
             (r = nextRec + 1 \/ r = 0 - (nextRec + 1)) =>
                 elements(embedded'[r], breadcrumbs') = breadcrumbs]_vars

\* a queued or stored record whose list is no longer what the ring holds
C33_Witness ==
    /\ \E r \in Range(logQueue) \cup Range(idb) \cup Range(lsSlot) :
          /\ elements(embedded[r], breadcrumbs) # <<>>
          /\ elements(embedded[r], breadcrumbs) # breadcrumbs
          /\ Len(elements(embedded[r], breadcrumbs)) = config.maxBreadcrumbs
    /\ Len(breadcrumbs) = config.maxBreadcrumbs

\* C34: while the circuit is open nothing is sent to dsn: no step puts a POST
\* or a beacon on the wire with circuitOpen set, the page-unload listener's
\* steps included.
C34_NoTransportWhileOpen ==
    /\ ~obs.last.beaconWhileOpen
    /\ obs.last.post # <<>> => ~obs.last.postWhileOpen

\* C35: with maxLogsPerMinute changed between the positive values 1 and 2 by
\* updateConfig, no more than 2 events of one calendar minute pass the
\* rate-limit step, and the change leaves the count of the current minute as
\* it was.
C35_RateAcrossUpdate ==
    [][/\ \A k \in DOMAIN rateObs'.passed : rateObs'.passed[k] <= 2
       /\ config'.maxLogsPerMinute # config.maxLogsPerMinute =>
              countOf(logCounts', minuteKey(now)) = countOf(logCounts, minuteKey(now))]_vars

\* C36: after every step that added a breadcrumb the ring holds no more than
\* the maxBreadcrumbs configured at that time, also when updateConfig has
\* lowered maxBreadcrumbs below the length the ring had.
C36_RingBound ==
    [][crumbCount' > crumbCount => Len(breadcrumbs') <= config'.maxBreadcrumbs]_vars

\* C37: whenever isSending is set it is cleared again later: no execution of
\* flushQueue leaves the sender blocked for good, given that the requests it
\* waits for settle.
C37_Released == isSending ~> ~isSending

\* C38: with the circuit closed the failure counter is below the threshold;
\* with the circuit open its reset timer is pending; the counter is 0 when a
\* step has called onSendSuccess, and from the reset of the circuit until the
\* first send after it has its outcome.
C38_CircuitConsistent ==
    /\ ~circuitOpen => consecutiveFailures < CIRCUIT_BREAKER_THRESHOLD
    /\ circuitOpen => circuitResetTimer
    /\ obs.last.onSendSuccess # <<>> => consecutiveFailures = 0
    /\ obs.halfOpen => (consecutiveFailures = 0 /\ ~circuitOpen)

\* the circuit has opened and has been reset, and the first send after the
\* reset succeeded
C38_Witness ==
    /\ obs.last.halfOpen
    /\ obs.last.onSendSuccess # <<>>
    /\ ~circuitOpen /\ ~circuitResetTimer /\ consecutiveFailures = 0

deletionPending(r) ==
    \E i \in 1..Len(idbOps) :
        idbOps[i].kind = "delete" /\ idOf(World, r) \in idbOps[i].ids

C40_SlotMirrors ==
    localStorageStore => Range(lsSlot) = DOMAIN timestamp \ obs.delivered

\* C31: every call of a wrapped console method or of wrapped
\* history.pushState / replaceState made in a step has invoked its saved
\* original, once, after captureLog was called for it.
C31_PatchAndDelegate ==
    /\ Len(obs.last.originals) = obs.last.wrapped
    /\ \A i \in DOMAIN obs.last.originals : obs.last.originals[i].routed
====
